---- MODULE Spec2Model ----
(***************************************************************************)
(* GitBot: the topology router (bot.py), the per-network connection engine *)
(* (irc_client.py) and the webhook listener (webhook_server.py).           *)
(*                                                                         *)
(* Spec        : engines, reloads and the topology (Bot, IRCClient)        *)
(* SpecBackoff : one engine's connection cycles (IRCClient.run)            *)
(* SpecWeb     : one webhook connection's request cycle (WebhookServer)    *)
(***************************************************************************)
EXTENDS Integers, Sequences, FiniteSets, TLC

\* ------------------------------------------------------------------ bounds

MaxEngines == 3        \* IRCClient objects ever constructed
MaxCycles  == 2        \* consecutive connection cycles without a 001, per engine
MaxBackoff == 8        \* the same, for the engine of SpecBackoff
MaxStops   == 2        \* stop() calls counted per engine (2 = twice or more)
MaxReloads == 2        \* reload calls that load a configuration
MaxQuery   == 2        \* `secret` parameters in a request's query string
MaxTargets == 2        \* rows of the webhook_routes table
MaxText == 2000        \* characters of a text given to privmsg
MaxDeliverReloads == 1 \* reload commands while deliveries are followed
MaxDeliverCycles == 1  \* failed connection cycles in a row while deliveries are followed

\* --------------------------------------------------------- program constants

RECONNECT_DELAY_MIN == 5
RECONNECT_DELAY_MAX == 300
MAX_BODY == 10485760   \* 10 * 1024 * 1024

\* ------------------------------------------------------------------ inputs

Names    == {"n1", "n2"}
CfgChans == {"#a", "#A", "#b"}
NoEng    == 0
EngIds   == 1..MaxEngines

\* str.lower() on the channel names of the model
Lower(c) == IF c = "#A" THEN "#a" ELSE c

LowerSet(S) == {Lower(c) : c \in S}

\* the "channels" lists the configuration file may hold in a network's table
ChanSets(n) == IF n = "n1" THEN {{"#a"}, {"#A", "#b"}} ELSE {{"#b"}}

\* the channels the server of a network echoes JOIN and PART for
EchoChans(n) == UNION ChanSets(n)

AbsentNet == [present |-> FALSE, chans |-> {}]

NetCfgs(n) == {AbsentNet} \cup [present : {TRUE}, chans : ChanSets(n)]

\* a configuration file: for every name, absent or the network's table
Configs == {c \in [Names -> UNION {NetCfgs(n) : n \in Names}] : \A n \in Names : c[n] \in NetCfgs(n)}

Min(a, b) == IF a < b THEN a ELSE b

RECURSIVE SetToSeq(_)
SetToSeq(S) == IF S = {} THEN <<>>
               ELSE LET x == CHOOSE y \in S : TRUE IN <<x>> \o SetToSeq(S \ {x})

\* the orders in which a Python set of names may be iterated
Perms(S) == {s \in [1..Cardinality(S) -> S] : \A i, j \in 1..Cardinality(S) : s[i] = s[j] => i = j}

\* ------------------------------------------------------------------- state

VARIABLES
  clients,    \* Bot._clients: name -> engine (NoEng: no entry)
  nextEng,    \* the next IRCClient object to be constructed
  pc,         \* position of each engine's run task
  ename,      \* IRCClient.name
  cfgch,      \* IRCClient.config["channels"]
  running,    \* IRCClient._running
  sock,       \* IRCClient._writer: "none" (None), "open", "closed" (close() called, not yet None)
  ready,      \* IRCClient._ready
  channels,   \* IRCClient._channels
  delay,      \* IRCClient._reconnect_delay
  rl,         \* the reload call running inside each engine's message handler
  sleepq,     \* the reload calls asleep in stop(), in the order their 0.5 s timers end
  cycles,     \* ghost: cycles ended since the engine was made or since its last 001 (that cycle counted)
  stops,      \* ghost: stop() calls on each engine
  botcfg,     \* Bot._cfg: the configuration loaded last
  nreload,    \* ghost: reload calls so far that loaded a configuration
  prevOk,     \* ghost: the reload started last has returned, and none has started since
  wire,       \* ghost: what the last step did (lines written, engines started/stopped, purges)
  ret,        \* ghost: the reload call that took the last step, and how the step ended
  wsecrets,   \* the `secrets` dict Bot.run hands to WebhookServer
  wreq,       \* the request the client of the webhook connection sends
  wpc,        \* position of the connection's _handle/_dispatch
  wbody,      \* the bytes reader.read returned
  wresp,      \* the status codes written to the connection, in order
  wclosed,    \* writer.close() was called
  wtask,      \* the task created for the delivery callback
  wread,      \* ghost: the body read returned
  wparsed,    \* ghost: json.loads was called
  wsigchecked, \* ghost: _verify_hmac was called
  wexc,       \* ghost: an exception left _dispatch and was caught by _handle
  whdr,       \* _dispatch's headers["X-Pad"] while the header loop runs ("": no such key)
  rroutes,    \* the rows of the webhook_routes table
  revent,     \* the event handed to Bot._on_webhook
  rpc,        \* position of the _on_webhook call
  rdelivered, \* the targets _deliver_irc was called for by the call
  ptarget,    \* IRCClient.privmsg: the byte length of its target argument
  ptext,      \* IRCClient.privmsg: its text argument
  ppc,        \* position of the privmsg call
  plines,     \* the byte lengths of the lines the call wrote, CRLF included
  dl,         \* the _deliver_irc call under way or ended last
  lcfg,       \* IRCClient.config of the engine whose inbound lines are followed
  lpc,        \* that engine's position: "idle", "connecting", "reading", "closed"
  lraw,       \* the line _handle was called with last
  lchannels,  \* its _channels
  lready,     \* its _ready
  ldelay,     \* its _reconnect_delay
  lfx,        \* what the last step did, in order: lines sent, fields set, callbacks, sleeps
  lout,       \* how the last _handle call ended: "", "returned", "raised"
  lncb,       \* ghost: on_connected calls on this connection
  lsaslfail,  \* ghost: a 904 or 905 was handled on this connection
  lnick,      \* ghost: the nickname of the NICK line sent last on this connection
  ftarget,    \* IRCClient.privmsg, followed by content: its target argument
  ftext,      \* its text argument
  fpc,        \* position of that call
  fwritten    \* the bytes the call handed to the writer

botvars == <<clients, nextEng, pc, ename, cfgch, running, sock, ready, channels, delay,
             rl, sleepq, cycles, stops, botcfg, nreload, prevOk, wire, ret>>

webvars == <<wsecrets, wreq, wpc, wbody, wresp, wclosed, wtask, wread, wparsed, wsigchecked, wexc,
             whdr>>

routevars == <<rroutes, revent, rpc, rdelivered>>

msgvars == <<ptarget, ptext, ppc, plines>>

dlvars == <<dl>>

linevars == <<lcfg, lpc, lraw, lchannels, lready, ldelay, lfx, lout, lncb, lsaslfail, lnick>>

framevars == <<ftarget, ftext, fpc, fwritten>>

vars == <<botvars, webvars, routevars, msgvars, dlvars, linevars, framevars>>

\* what the steps of the engines and reloads, of the webhook connection, and of
\* the _on_webhook call leave alone
nonbot == <<webvars, routevars, msgvars, dlvars, linevars, framevars>>

nonweb == <<botvars, routevars, msgvars, dlvars, linevars, framevars>>

nonroute == <<botvars, webvars, msgvars, dlvars, linevars, framevars>>

nonmsg == <<botvars, webvars, routevars, dlvars, linevars, framevars>>

nonline == <<botvars, webvars, routevars, msgvars, dlvars, framevars>>

nonframe == <<botvars, webvars, routevars, msgvars, dlvars, linevars>>

NoCfg == [n \in Names |-> [present |-> FALSE, chans |-> {"none"}]]

NoReload == [active |-> FALSE, cfg |-> NoCfg, old |-> NoCfg, todo |-> {}, cur |-> "", tgt |-> NoEng,
             removed |-> {}, snap |-> [n \in Names |-> NoEng], same |-> FALSE,
             acc |-> FALSE]

NoRet == [kind |-> "none", host |-> NoEng, cfg |-> NoCfg, old |-> NoCfg, snap |-> [n \in Names |-> NoEng],
          added |-> {}, removed |-> {}, updated |-> {}, same |-> FALSE, acc |-> FALSE]

Fx(k, by, e, n, cmd, arg) == [k |-> k, by |-> by, e |-> e, n |-> n, cmd |-> cmd, arg |-> arg]

\* --------------------------------------------------------- IRCClient pieces

\* IRCClient.send: the line is written only when _writer is set; a transport
\* that close() was called on drops it
SendTo(w, by, e, cmd, arg) ==
  IF w.sock[e] = "open"
  THEN [w EXCEPT !.fx = Append(@, Fx("send", by, e, w.ename[e], cmd, arg))]
  ELSE w

\* IRCClient.join
Join(w, by, e, ch) == SendTo(w, by, e, "JOIN", ch)

RECURSIVE JoinAll(_, _, _, _)
JoinAll(w, by, e, chs) ==
  IF chs = <<>> THEN w ELSE JoinAll(Join(w, by, e, Head(chs)), by, e, Tail(chs))

\* IRCClient.stop up to its await: _running = False and, with a writer, QUIT
StopBegin(w, e) ==
  LET w1 == [w EXCEPT !.running[e] = FALSE,
                      !.stops[e] = Min(@ + 1, MaxStops),
                      !.fx = Append(@, Fx("stop", "reload", e, w.ename[e], "", ""))]
  IN IF w.sock[e] # "none" THEN SendTo(w1, "stop", e, "QUIT", "Configuration removed") ELSE w1

\* stop() suspends (asyncio.sleep(0.5)) only inside `if self._writer`
StopSuspends(w, e) == w.sock[e] # "none"

\* IRCClient.stop after its sleep: self._writer.close(); a writer that has become
\* None raises AttributeError, which stop() swallows
StopEnd(w, e) == [w EXCEPT !.sock[e] = IF @ = "none" THEN "none" ELSE "closed"]

\* mutant of AfterCycle: the loop left after any cycle
AfterCycleBreak(w, e) == [w EXCEPT !.pc[e] = "done"]

\* the end of run()'s loop body after _connect has ended: `if not self._running: break`
AfterCycle(w, e) ==
  [w EXCEPT !.pc[e] = IF w.running[e] THEN "backoff" ELSE "done"]

\* _connect's finally (writer.close(); _writer = None; _ready = False) and run()'s except
Teardown(w, e) ==
  AfterCycle([w EXCEPT !.sock[e] = "none", !.ready[e] = FALSE,
                       !.cycles[e] = @ + 1], e)

\* the state as one record, so that a handler's calls compose
World == [clients |-> clients, nextEng |-> nextEng, pc |-> pc, ename |-> ename,
          cfgch |-> cfgch, running |-> running, sock |-> sock, ready |-> ready,
          channels |-> channels, delay |-> delay, cycles |-> cycles, stops |-> stops,
          fx |-> <<>>]

Commit(w) ==
  /\ clients' = w.clients
  /\ nextEng' = w.nextEng
  /\ pc' = w.pc
  /\ ename' = w.ename
  /\ cfgch' = w.cfgch
  /\ running' = w.running
  /\ sock' = w.sock
  /\ ready' = w.ready
  /\ channels' = w.channels
  /\ delay' = w.delay
  /\ cycles' = w.cycles
  /\ stops' = w.stops
  /\ wire' = w.fx
  /\ UNCHANGED nonbot

\* ------------------------------------------------------------ engine steps

\* asyncio.open_connection returns: the socket is set, the joined set cleared,
\* NICK and USER written, and the read loop entered
ConnectOK(e) ==
  /\ pc[e] = "connecting"
  /\ LET w1 == [World EXCEPT !.sock[e] = "open", !.channels[e] = {}, !.ready[e] = FALSE,
                             !.pc[e] = "connected"]
         w2 == SendTo(SendTo(w1, "connect", e, "NICK", ""), "connect", e, "USER", "")
     IN Commit(w2)
  /\ UNCHANGED <<rl, sleepq, botcfg, nreload, prevOk>>
  /\ ret' = NoRet

\* asyncio.open_connection raises: run() logs it and goes to its backoff sleep
ConnectFailB(e, cap) ==
  /\ pc[e] = "connecting"
  /\ cycles[e] < cap
  /\ Commit(AfterCycle([World EXCEPT !.cycles[e] = @ + 1], e))
  /\ UNCHANGED <<rl, sleepq, botcfg, nreload, prevOk>>
  /\ ret' = NoRet

ConnectFail(e) == ConnectFailB(e, MaxCycles)

\* mutant of Recv001: the reconnect delay left as it is
Recv001KeepsDelay(e) ==
  /\ pc[e] = "connected"
  /\ LET w1 == [World EXCEPT !.cycles[e] = 0]
         w2 == JoinAll(w1, "001", e, SetToSeq(cfgch[e]))
     IN Commit([w2 EXCEPT !.ready[e] = TRUE])
  /\ UNCHANGED <<rl, sleepq, botcfg, nreload, prevOk>>
  /\ ret' = NoRet

\* _handle on the 001 numeric
Recv001(e) ==
  /\ pc[e] = "connected"
  /\ LET w1 == [World EXCEPT !.delay[e] = RECONNECT_DELAY_MIN, !.cycles[e] = 0]
         w2 == JoinAll(w1, "001", e, SetToSeq(cfgch[e]))
     IN Commit([w2 EXCEPT !.ready[e] = TRUE])
  /\ UNCHANGED <<rl, sleepq, botcfg, nreload, prevOk>>
  /\ ret' = NoRet

\* _handle on a JOIN line whose prefix is the bot's own nickname
RecvJoin(e, c) ==
  /\ pc[e] = "connected"
  /\ ready[e]
  /\ c \in EchoChans(ename[e])
  /\ Commit([World EXCEPT !.channels[e] = @ \cup {Lower(c)}])
  /\ UNCHANGED <<rl, sleepq, botcfg, nreload, prevOk>>
  /\ ret' = NoRet

\* _handle on a PART line
RecvPart(e, c) ==
  /\ pc[e] = "connected"
  /\ ready[e]
  /\ c \in EchoChans(ename[e])
  /\ Commit([World EXCEPT !.channels[e] = @ \ {Lower(c)}])
  /\ UNCHANGED <<rl, sleepq, botcfg, nreload, prevOk>>
  /\ ret' = NoRet

\* _read_lines returns (EOF or the 300 s read timeout): _connect's finally, then run()
ConnEndB(e, cap) ==
  /\ pc[e] = "connected"
  /\ cycles[e] < cap
  /\ Commit(Teardown(World, e))
  /\ UNCHANGED <<rl, sleepq, botcfg, nreload, prevOk>>
  /\ ret' = NoRet

ConnEnd(e) == ConnEndB(e, MaxCycles)

\* mutant of NextDelay: the ceiling dropped
NextDelayUncapped(d) == d * 2

\* run(): self._reconnect_delay = min(self._reconnect_delay * 2, RECONNECT_DELAY_MAX)
NextDelay(d) == Min(d * 2, RECONNECT_DELAY_MAX)

\* run(): the backoff sleep ends, the delay doubles up to the ceiling, `while self._running`
BackoffDone(e) ==
  /\ pc[e] = "backoff"
  /\ Commit([World EXCEPT !.delay[e] = NextDelay(@),
                          !.pc[e] = IF running[e] THEN "connecting" ELSE "done"])
  /\ UNCHANGED <<rl, sleepq, botcfg, nreload, prevOk>>
  /\ ret' = NoRet

\* --------------------------------------------------------------- Bot.reload

\* mutant of Gone: the test `name not in new_nets` dropped
GoneAlways(cfg, name) == TRUE

\* reload's first loop, `if name not in new_nets`
Gone(cfg, name) == ~cfg[name].present

\* reload: del self._clients[name]; db.purge_network(...); removed.append(name)
Forget(w, name) ==
  [w EXCEPT !.clients[name] = NoEng,
            !.fx = Append(@, Fx("purge_network", "reload", NoEng, name, "", "")),
            !.removed = @ \cup {name}]

\* reload's first loop from the names still to visit, in the order the set yields
\* them, up to the first stop() that suspends, a KeyError, or its end. Names of
\* the snapshot that the new configuration keeps are skipped by the loop and are
\* not carried in `order`.
RECURSIVE RemoveLoop(_, _)
RemoveLoop(w, order) ==
  IF order = <<>>
  THEN [w EXCEPT !.status = "loopdone", !.todo = {}]
  ELSE LET name == Head(order)
           rest == {order[i] : i \in 2..Len(order)}
       IN IF w.clients[name] = NoEng
          THEN [w EXCEPT !.status = "raise", !.todo = rest]
          ELSE LET e  == w.clients[name]
                   w1 == StopBegin(w, e)
               IN IF StopSuspends(w, e)
                  THEN [w1 EXCEPT !.status = "susp", !.cur = name, !.tgt = e, !.todo = rest]
                  ELSE RemoveLoop(Forget(w1, name), Tail(order))

\* Bot._start_network: a new IRCClient registered under the name, its run task created
StartNetwork(w, name, chans) ==
  LET e == w.nextEng
  IN [w EXCEPT !.clients[name] = e, !.nextEng = e + 1, !.pc[e] = "connecting",
               !.ename[e] = name, !.cfgch[e] = chans,
               !.fx = Append(@, Fx("start", "reload", e, name, "", "")),
               !.added = @ \cup {name}]

\* reload: `for ch in new_chans - cur_chans`
ToJoin(new, cur) == new \ cur

\* reload: `for ch in cur_chans - new_chans`
ToPart(new, cur) == cur \ new

\* reload: client.send(PART ...); db.purge_channel(...), for each channel to part
RECURSIVE PartAll(_, _, _, _)
PartAll(w, name, e, chs) ==
  IF chs = <<>> THEN w
  ELSE LET w1 == SendTo(w, "reload", e, "PART", Head(chs))
           w2 == [w1 EXCEPT !.fx = Append(@, Fx("purge_channel", "reload", e, name, "", Head(chs)))]
       IN PartAll(w2, name, e, Tail(chs))

\* reload: an existing network's channels against the new configuration
Reconcile(w, name, chans) ==
  LET e   == w.clients[name]
      new == LowerSet(chans)
      cur == w.channels[e]
      w1  == JoinAll(w, "reload", e, SetToSeq(ToJoin(new, cur)))
      w2  == PartAll(w1, name, e, SetToSeq(ToPart(new, cur)))
  IN IF new # cur THEN [w2 EXCEPT !.updated = @ \cup {name}] ELSE w2

\* reload's second loop over new_nets
RECURSIVE SecondLoop(_, _, _)
SecondLoop(w, cfg, names) ==
  IF names = <<>> THEN w
  ELSE LET name == Head(names)
           w1 == IF w.clients[name] = NoEng
                 THEN StartNetwork(w, name, cfg[name].chans)
                 ELSE Reconcile(w, name, cfg[name].chans)
       IN SecondLoop(w1, cfg, Tail(names))

NewNets(cfg) == {n \in Names : cfg[n].present}

\* what a reload call itself did in a step: engines stopped or started, lines it
\* wrote, purges (the command's reply is not the reload's)
ReloadFx(fx) == {i \in 1..Len(fx) : fx[i].by \in {"reload", "stop"}}

\* commands.handle_pm -> Bot._on_message.pm_reply: self._clients[network].privmsg(nick, msg);
\* a network that has left the topology raises KeyError into the engine's read loop
Reply(w, h) ==
  LET n == w.ename[h]
  IN IF w.clients[n] = NoEng
     THEN Teardown(w, h)
     ELSE [SendTo(w, "reply", w.clients[n], "PRIVMSG", "") EXCEPT !.pc[h] = "connected"]

RWorld(r) == World @@ [status |-> "run", cur |-> r.cur, tgt |-> r.tgt, todo |-> r.todo,
                       removed |-> r.removed, added |-> {}, updated |-> {}]

RetOf(kind, h, r, w) ==
  [kind |-> kind, host |-> h, cfg |-> r.cfg, old |-> r.old, snap |-> r.snap, added |-> w.added,
   removed |-> w.removed, updated |-> w.updated, same |-> r.same,
   acc |-> (r.acc \/ ReloadFx(w.fx) # {})]

\* where a reload call goes after its first loop ran as far as it can: suspended in
\* stop(), raised, or through the second loop to its return and the command's reply
Continue(h, r, q, w) ==
  CASE w.status = "susp" ->
         /\ Commit([w EXCEPT !.pc[h] = "reload"])
         /\ sleepq' = Append(q, h)
         /\ rl' = [rl EXCEPT ![h] = [r EXCEPT !.todo = w.todo, !.cur = w.cur, !.tgt = w.tgt,
                                               !.removed = w.removed,
                                               !.acc = (r.acc \/ ReloadFx(w.fx) # {})]]
         /\ ret' = RetOf("susp", h, r, w)
         /\ prevOk' = FALSE
    [] w.status = "raise" ->
         /\ Commit(Teardown(w, h))
         /\ sleepq' = q
         /\ rl' = [rl EXCEPT ![h] = NoReload]
         /\ ret' = RetOf("raise", h, r, w)
         /\ prevOk' = FALSE
    [] w.status = "loopdone" ->
         /\ w.nextEng + Cardinality({n \in NewNets(r.cfg) : w.clients[n] = NoEng}) <= MaxEngines + 1
         /\ LET w2 == SecondLoop(w, r.cfg, SetToSeq(NewNets(r.cfg)))
            IN /\ Commit(Reply(w2, h))
               /\ ret' = RetOf("ok", h, r, w2)
         /\ sleepq' = q
         /\ rl' = [rl EXCEPT ![h] = NoReload]
         /\ prevOk' = \A g \in EngIds \ {h} : ~rl[g].active

\* _handle on a PRIVMSG carrying the owner's reload command: Bot._on_message,
\* commands.handle_pm, Bot.reload up to its first suspension
ReloadStartB(h, cfg, cap) ==
  /\ nreload < cap
  /\ pc[h] = "connected"
  /\ ready[h]
  /\ clients[ename[h]] # NoEng
  /\ LET r == [active |-> TRUE, cfg |-> cfg, old |-> botcfg, cur |-> "", tgt |-> NoEng, removed |-> {},
               todo |-> {n \in Names : clients[n] # NoEng /\ Gone(cfg, n)},
               snap |-> clients,
               same |-> (prevOk /\ botcfg = cfg /\ \A g \in EngIds : ~rl[g].active),
               acc |-> FALSE]
         rlo == [g \in EngIds |-> IF rl[g].active THEN [rl[g] EXCEPT !.same = FALSE] ELSE rl[g]]
     IN \E order \in Perms(r.todo) :
          LET w == RemoveLoop(RWorld(r), order)
          IN /\ Continue(h, r, sleepq, w)
             /\ \A g \in EngIds \ {h} : rl'[g] = rlo[g]
             /\ botcfg' = cfg
             /\ nreload' = nreload + 1

ReloadStart(h, cfg) == ReloadStartB(h, cfg, MaxReloads)

\* the 0.5 s sleep inside stop() ends: the stopped engine's socket is closed, the
\* name deleted from the topology, and the first loop goes on
ReloadResume(h) ==
  /\ pc[h] = "reload"
  /\ sleepq # <<>> /\ Head(sleepq) = h
  /\ LET r  == rl[h]
         w1 == StopEnd(RWorld(r), r.tgt)
     IN IF w1.clients[r.cur] = NoEng
        THEN Continue(h, r, Tail(sleepq), [w1 EXCEPT !.status = "raise"])
        ELSE \E order \in Perms(r.todo) :
               Continue(h, r, Tail(sleepq), RemoveLoop(Forget(w1, r.cur), order))
  /\ UNCHANGED <<botcfg, nreload>>

\* mutant of ReloadFail: the stored configuration dropped before the failure is reported
ReloadFailForgets(h) ==
  /\ pc[h] = "connected"
  /\ ready[h]
  /\ clients[ename[h]] # NoEng
  /\ Commit(Reply(World, h))
  /\ ret' = [NoRet EXCEPT !.kind = "failed", !.host = h]
  /\ botcfg' = NoCfg
  /\ UNCHANGED <<rl, sleepq, nreload, prevOk>>

\* reload: load_config raises, the failure text is returned and replied
ReloadFail(h) ==
  /\ pc[h] = "connected"
  /\ ready[h]
  /\ clients[ename[h]] # NoEng
  /\ Commit(Reply(World, h))
  /\ ret' = [NoRet EXCEPT !.kind = "failed", !.host = h]
  /\ UNCHANGED <<rl, sleepq, botcfg, nreload, prevOk>>

\* _handle on a PRIVMSG for an engine whose name has left the topology:
\* Bot._on_message's self._clients[network] raises KeyError
PrivmsgOrphan(h) ==
  /\ pc[h] = "connected"
  /\ ready[h]
  /\ clients[ename[h]] = NoEng
  /\ cycles[h] < MaxCycles
  /\ Commit(Teardown(World, h))
  /\ ret' = NoRet
  /\ UNCHANGED <<rl, sleepq, botcfg, nreload, prevOk>>

\* --------------------------------------------------------- Bot._deliver_irc

\* the channels deliveries are addressed to
DeliverChans == {"#A", "#b"}

NoDelivery == [phase |-> "none", net |-> "", ch |-> "", eng |-> NoEng, out |-> "",
               ahead |-> {}]

\* the reload calls asleep in stop(), each with the name whose engine it is stopping
Asleep == {[h |-> sleepq[i], cur |-> rl[sleepq[i]].cur] : i \in 1..Len(sleepq)}

\* mutant of ClientsGet: a missing name answered with the first engine
ClientsGetOrFirst(cl, network) == IF cl[network] = NoEng THEN 1 ELSE cl[network]

\* self._clients.get(network): the engine, or None
ClientsGet(cl, network) == cl[network]

\* IRCClient.in_channel
InChannel(e, channel) == Lower(channel) \in channels[e]

\* what a step of _deliver_irc leaves alone: it only writes to an engine's socket
DeliverFrame ==
  /\ ret' = NoRet
  /\ UNCHANGED <<clients, nextEng, pc, ename, cfgch, running, sock, ready, channels, delay,
                 rl, sleepq, cycles, stops, botcfg, nreload, prevOk>>
  /\ UNCHANGED <<webvars, routevars, msgvars, linevars, framevars>>

\* Bot._deliver_irc(network, channel, message) up to its return or its 2 s sleep
DeliverCall(network, channel) ==
  /\ dl.phase \in {"none", "done"}
  /\ LET client == ClientsGet(clients, network)
         d == [phase |-> "done", net |-> network, ch |-> channel, eng |-> client, out |-> "",
               ahead |-> {}]
     IN IF client = NoEng
        THEN /\ wire' = <<>>
             /\ dl' = [d EXCEPT !.out = "dropped"]
        ELSE IF InChannel(client, channel)
        THEN /\ wire' = SendTo(World, "deliver", client, "PRIVMSG", channel).fx
             /\ dl' = [d EXCEPT !.out = "sent"]
        ELSE /\ wire' = Join(World, "deliver", client, channel).fx
             /\ dl' = [d EXCEPT !.phase = "sleep", !.ahead = Asleep]
  /\ DeliverFrame

\* asyncio.sleep(2) ends, after every 0.5 s sleep that began before it:
\* client.privmsg(channel, message) on the engine looked up before the sleep
DeliverResume ==
  /\ dl.phase = "sleep"
  /\ dl.ahead \cap Asleep = {}
  /\ wire' = SendTo(World, "deliver", dl.eng, "PRIVMSG", dl.ch).fx
  /\ dl' = [dl EXCEPT !.phase = "done", !.out = "sent", !.ahead = {}]
  /\ DeliverFrame

\* -------------------------------------------------------- IRCClient._handle

\* A line is a sequence of atoms: the separators " ", ":" and "!" and the pieces
\* of text between them.

\* str.lower() on the atoms of the model
LowerAtom(a) ==
  CASE a = "#A" -> "#a"
    [] a = "Bot" -> "bot"
    [] OTHER -> a

LowerSeq(s) == [i \in 1..Len(s) |-> LowerAtom(s[i])]

\* s.split(sep)
RECURSIVE SplitOn(_, _)
SplitOn(s, sep) ==
  IF \A i \in 1..Len(s) : s[i] # sep THEN <<s>>
  ELSE LET i == CHOOSE k \in 1..Len(s) : s[k] = sep /\ \A j \in 1..(k - 1) : s[j] # sep
       IN <<SubSeq(s, 1, i - 1)>> \o SplitOn(SubSeq(s, i + 1, Len(s)), sep)

\* s.split(sep, 1)
SplitOnce(s, sep) ==
  IF \A i \in 1..Len(s) : s[i] # sep THEN <<s>>
  ELSE LET i == CHOOSE k \in 1..Len(s) : s[k] = sep /\ \A j \in 1..(k - 1) : s[j] # sep
       IN <<SubSeq(s, 1, i - 1), SubSeq(s, i + 1, Len(s))>>

\* q[-1]
Last(q) == q[Len(q)]

\* s.lstrip(c)
RECURSIVE LStrip(_, _)
LStrip(s, c) == IF s # <<>> /\ Head(s) = c THEN LStrip(Tail(s), c) ELSE s

\* sub in s, for a piece of text
Contains(s, a) == \E i \in 1..Len(s) : s[i] = a

\* s.startswith(a)
StartsWith(s, a) == s # <<>> /\ Head(s) = a

OwnNick == "bot"

\* the engine's configuration as far as _handle reads it: "sasl_plain" and
\* "nickserv_password" present or not, "channels"; and `topo`, whether the
\* engine's name is a key of Bot._clients
LineCfgs == [sasl : BOOLEAN, nickserv : BOOLEAN, chans : {<<>>, <<"#a">>, <<"#A", "#b">>},
             topo : BOOLEAN]

NoLineCfg == [sasl |-> FALSE, nickserv |-> FALSE, chans |-> <<>>, topo |-> FALSE]

\* the lines the server sends
Lines ==
  { <<"PING", " ", ":", "a">>,
    <<"PING", " ", "a">>,
    <<"PING", " ", ":", "a", ":", "b">>,
    <<"PING", " ", "a", ":", "b">>,
    <<":", "srv", " ", "CAP", " ", "*", " ", "ACK", " ", ":", "sasl">>,
    <<":", "srv", " ", "CAP", " ", "*", " ", "NAK", " ", ":", "sasl">>,
    <<":", "srv", " ", "CAP", " ", "*">>,
    <<"AUTHENTICATE", " ", "+">>,
    <<":", "srv", " ", "903", " ", "bot", " ", ":", "ok">>,
    <<":", "srv", " ", "904", " ", "bot", " ", ":", "failed">>,
    <<":", "srv", " ", "905", " ", "bot", " ", ":", "failed">>,
    <<":", "srv", " ", "001", " ", "bot", " ", ":", "Welcome">>,
    <<":", "bot", "!", "u@h", " ", "JOIN", " ", "#A">>,
    <<":", "Bot", "!", "u@h", " ", "JOIN", " ", ":", "#b">>,
    <<":", "other", "!", "u@h", " ", "JOIN", " ", "#a">>,
    <<":", "bot", "_", "!", "u@h", " ", "JOIN", " ", "#a">>,
    <<":", "bot", "!", "u@h", " ", "PART", " ", "#A">>,
    <<":", "other", "!", "u@h", " ", "PART", " ", "#a">>,
    <<":", "op", "!", "u@h", " ", "KICK", " ", "#a", " ", "bot", " ", ":", "bye">>,
    <<":", "op", "!", "u@h", " ", "KICK", " ", "#a", " ", "other", " ", ":", "bye">>,
    <<":", "other", "!", "u@h", " ", "PRIVMSG", " ", "bot", " ", ":", "hi">>,
    <<":", "other", "!", "u@h", " ", "PRIVMSG", " ", "#a", " ", ":", "hi">>,
    <<":", "other", "!", "u@h", " ", "PRIVMSG", " ", "bot">>,
    <<":", "srv", " ", "433", " ", "*", " ", "bot", " ", ":", "in use">>,
    <<":", "srv", " ", "999", " ", "bot", " ", ":", "x">>,
    <<":", "srv", " ", "JOIN">>,
    <<"FOO">>,
    <<>> }

\* effects, in the order they happen
Sent(line) == [k |-> "send", v |-> line]
Assigned(field) == [k |-> "set", v |-> <<field>>]
Called(f) == [k |-> "call", v |-> <<f>>]
Slept(secs) == [k |-> "sleep", v |-> <<secs>>]

\* IRCClient.join
JoinLine(channel) == Sent(<<"JOIN", " ">> \o channel)

\* _handle on 001: `for ch in self.config.get("channels", []): self.join(ch)`
JoinLines(chans) == [i \in 1..Len(chans) |-> JoinLine(<<chans[i]>>)]

\* the state of the engine that _handle reads and writes
LineState == [channels |-> lchannels, ready |-> lready, delay |-> ldelay]

\* a _handle call's end: its effects, the state it leaves, returned or raised
Ended(st, fx, out) == [fx |-> fx, channels |-> st.channels, ready |-> st.ready,
                       delay |-> st.delay, out |-> out]

\* mutant of Welcome: ready and the callback before the channels are joined
WelcomeReadyFirst(cfg, st) ==
  Ended([st EXCEPT !.delay = RECONNECT_DELAY_MIN, !.ready = TRUE],
        <<Assigned("_reconnect_delay")>>
          \o (IF cfg.nickserv THEN <<Sent(<<"PRIVMSG", " ", "NickServ", " ", ":", "IDENTIFY">>)>>
              ELSE <<>>)
          \o <<Assigned("_ready"), Called("on_connected")>>
          \o JoinLines(cfg.chans),
        "returned")

\* _handle on the 001 numeric
Welcome(cfg, st) ==
  Ended([st EXCEPT !.delay = RECONNECT_DELAY_MIN, !.ready = TRUE],
        <<Assigned("_reconnect_delay")>>
          \o (IF cfg.nickserv THEN <<Sent(<<"PRIVMSG", " ", "NickServ", " ", ":", "IDENTIFY">>)>>
              ELSE <<>>)
          \o JoinLines(cfg.chans)
          \o <<Assigned("_ready"), Called("on_connected")>>,
        "returned")

\* mutant of SaslFailed: a failed authentication abandons the connection
SaslFailedAborts(st) == Ended(st, <<>>, "raised")

\* _handle on the 904 and 905 numerics
SaslFailed(st) == Ended(st, <<Sent(<<"CAP", " ", "END">>)>>, "returned")

\* IRCClient._handle(raw)
Handle(cfg, st, raw) ==
  LET parts == SplitOn(raw, " ")
      n     == Len(parts)
  IN CASE StartsWith(raw, "PING") ->
            LET token == IF Contains(raw, ":") THEN Last(SplitOnce(raw, ":"))
                         ELSE Last(SplitOnce(raw, " "))
            IN Ended(st, <<Sent(<<"PONG", " ", ":">> \o token)>>, "returned")
       [] ~StartsWith(raw, "PING") /\ n >= 3 /\ parts[2] = <<"CAP">> ->
            LET sub == IF n > 3 THEN parts[4] ELSE <<>>
            IN IF sub \in {<<"ACK">>, <<":", "ACK">>} /\ Contains(raw, "sasl")
               THEN Ended(st, <<Sent(<<"AUTHENTICATE", " ", "PLAIN">>)>>, "returned")
               ELSE Ended(st, <<>>, "returned")
       [] OTHER ->
            IF n >= 2 /\ parts[1] = <<"AUTHENTICATE">>
            THEN IF cfg.sasl
                 THEN Ended(st, <<Sent(<<"AUTHENTICATE", " ", "b64(user,password)">>)>>, "returned")
                 ELSE Ended(st, <<>>, "raised")
            ELSE IF n >= 2 /\ parts[2] = <<"903">>
            THEN Ended(st, <<Sent(<<"CAP", " ", "END">>)>>, "returned")
            ELSE IF n >= 2 /\ parts[2] \in {<<"904">>, <<"905">>}
            THEN SaslFailed(st)
            ELSE IF n >= 2 /\ parts[2] = <<"001">>
            THEN Welcome(cfg, st)
            ELSE IF n >= 3 /\ parts[2] = <<"JOIN">>
            THEN LET channel == LStrip(parts[3], ":")
                     joiner  == SplitOn(LStrip(parts[1], ":"), "!")[1]
                 IN IF LowerSeq(joiner) = LowerSeq(<<OwnNick>>)
                    THEN Ended([st EXCEPT !.channels = @ \cup {LowerSeq(channel)}], <<>>, "returned")
                    ELSE Ended(st, <<>>, "returned")
            ELSE IF n >= 3 /\ parts[2] \in {<<"KICK">>, <<"PART">>}
            THEN LET channel == LStrip(parts[3], ":")
                     st1     == [st EXCEPT !.channels = @ \ {LowerSeq(channel)}]
                 IN IF parts[2] = <<"KICK">>
                    THEN Ended(st1, <<Slept("5"), JoinLine(channel)>>, "returned")
                    ELSE Ended(st1, <<>>, "returned")
            ELSE IF n >= 4 /\ parts[2] = <<"PRIVMSG">>
            THEN IF cfg.topo
                 THEN Ended(st, <<Called("on_message")>>, "returned")
                 ELSE Ended(st, <<>>, "raised")
            ELSE IF n >= 2 /\ parts[2] = <<"433">>
            THEN Ended(st, <<Sent(<<"NICK", " ", OwnNick, "_">>)>>, "returned")
            ELSE Ended(st, <<>>, "returned")

\* the nickname of the NICK line among the effects, <<>> if there is none
NickSent(fx) ==
  IF \E i \in 1..Len(fx) : fx[i].k = "send" /\ StartsWith(fx[i].v, "NICK")
  THEN LET i == CHOOSE k \in 1..Len(fx) : fx[k].k = "send" /\ StartsWith(fx[k].v, "NICK")
       IN SubSeq(fx[i].v, 3, Len(fx[i].v))
  ELSE <<>>

\* _connect after open_connection has returned: _channels, _ready, CAP REQ with
\* SASL configured, NICK, USER
LineConnect ==
  /\ lpc = "connecting"
  /\ lpc' = "reading"
  /\ lchannels' = {}
  /\ lready' = FALSE
  /\ lfx' = (IF lcfg.sasl THEN <<Sent(<<"CAP", " ", "REQ", " ", ":", "sasl">>)>> ELSE <<>>)
            \o <<Sent(<<"NICK", " ", OwnNick>>), Sent(<<"USER", " ", OwnNick>>)>>
  /\ lraw' = <<>>
  /\ lout' = ""
  /\ lncb' = 0
  /\ lsaslfail' = FALSE
  /\ lnick' = <<OwnNick>>
  /\ UNCHANGED <<lcfg, ldelay>>
  /\ UNCHANGED nonline

\* _read_lines yields a line and _connect awaits _handle(raw); an exception leaves
\* the loop through _connect's finally. The server sends 001 once per connection,
\* and 433 only in answer to a NICK line, which the engine sends before 001 only.
HandleLine(raw) ==
  /\ lpc = "reading"
  /\ raw \in Lines
  /\ Contains(raw, "001") => ~lready
  /\ Contains(raw, "433") => ~lready
  /\ LET r == Handle(lcfg, LineState, raw)
     IN /\ lraw' = raw
        /\ lfx' = r.fx
        /\ lout' = r.out
        /\ lchannels' = r.channels
        /\ ldelay' = r.delay
        /\ lready' = IF r.out = "raised" THEN FALSE ELSE r.ready
        /\ lpc' = IF r.out = "raised" THEN "closed" ELSE "reading"
        /\ lncb' = lncb + Cardinality({i \in 1..Len(r.fx) : r.fx[i] = Called("on_connected")})
        /\ lsaslfail' = (lsaslfail \/ Contains(raw, "904") \/ Contains(raw, "905"))
        /\ lnick' = IF NickSent(r.fx) # <<>> THEN NickSent(r.fx) ELSE lnick
  /\ UNCHANGED lcfg
  /\ UNCHANGED nonline

\* ------------------------------------------------------------ WebhookServer

Forges == {"github", "gitea", "gitlab"}

NoSecret == ""

\* Bot.run: the legacy `secret` key for every forge, github_secret given or not
SecretCfgs ==
  {[f \in Forges |-> IF f = "github" THEN g ELSE legacy] : g, legacy \in {NoSecret, "s1"}}

\* WebhookServer.__init__: the forges whose secret is empty are left out
Secrets(cfg) == [f \in {g \in Forges : cfg[g] # ""} |-> cfg[f]]

\* self._secrets.get(forge)
SecretsGet(cfg, forge) == IF forge \in DOMAIN Secrets(cfg) THEN Secrets(cfg)[forge] ELSE NoSecret

ForgePaths == {"/github", "/Gitea/", "/gitlab"}

Paths == ForgePaths \cup {"/hook"}

\* parsed.path.rstrip("/").lstrip("/").lower() on the paths of the model
CleanPath(p) ==
  CASE p = "/github" -> "github"
    [] p = "/Gitea/" -> "gitea"
    [] p = "/gitlab" -> "gitlab"
    [] OTHER -> "hook"

\* the values of the `secret` parameters of a query string, in order
QueryVals == {"", "s1", "bad"}

Queries == UNION {[1..n -> QueryVals] : n \in 0..MaxQuery}

None == [some |-> FALSE, v |-> ""]

Some(v) == [some |-> TRUE, v |-> v]

\* parse_qs(parsed.query).get("secret", [None])[0]: parse_qs drops blank values
RECURSIVE UrlSecret(_)
UrlSecret(q) ==
  IF q = <<>> THEN None
  ELSE IF Head(q) # "" THEN Some(Head(q)) ELSE UrlSecret(Tail(q))

Bodies == {"{}", "{", "", "<ff>", "payload={}", "payload={"}

\* bytes.decode(): UnicodeDecodeError on "<ff>", the body that is not UTF-8
Decodable(b) == b # "<ff>"

\* urllib.parse.parse_qs(body).get("payload", ["{}"])[0]
Payload(b) ==
  CASE b = "payload={}" -> "{}"
    [] b = "payload={" -> "{"
    [] OTHER -> "{}"

\* json.loads succeeds
JsonValid(raw) == raw = "{}"

ContentTypes == {"application/json", "application/x-www-form-urlencoded"}

IsForm(ct) == ct = "application/x-www-form-urlencoded"

\* header values: text, a hex digest (an HMAC-SHA256, taken as collision-free),
\* or a value holding a non-ASCII character; pfx: the value starts with "sha256="
Text(s) == [pfx |-> FALSE, t |-> "text", key |-> s, body |-> ""]

HexDigest(key, body) == [pfx |-> FALSE, t |-> "hex", key |-> key, body |-> body]

NonAscii == [pfx |-> FALSE, t |-> "nonascii", key |-> "", body |-> ""]

Prefixed(v) == [v EXCEPT !.pfx = TRUE]

\* sig_header[7:]
Strip7(v) == [v EXCEPT !.pfx = FALSE]

NoHeader == [name |-> "", val |-> Text("")]

\* the signature header a client may send along with body b: none, or one of the
\* three forges' headers
SigHeaders(b) ==
  {NoHeader}
  \cup [name : {"X-Hub-Signature-256"},
        val : {Prefixed(HexDigest("s1", b)), Prefixed(HexDigest("bad", b)), HexDigest("s1", b),
               Prefixed(NonAscii), NonAscii}]
  \cup [name : {"X-Gitea-Signature"},
        val : {HexDigest("s1", b), HexDigest("bad", b), Prefixed(HexDigest("s1", b)), NonAscii}]
  \cup [name : {"X-Gitlab-Token"},
        val : {Text("s1"), Text("bad"), NonAscii}]

\* headers.get(name, "")
HeaderGet(h, name) == IF h.name = name THEN h.val ELSE Text("")

\* int(headers.get("Content-Length", 0)) for a request whose body is b; the header
\* is absent (""), the decimal length of the body sent ("len"), a length above
\* MAX_BODY, a negative length, or a value int() raises ValueError on
ContentLength(cl, b) ==
  CASE cl = "" -> [ok |-> TRUE, n |-> 0]
    [] cl = "len" -> [ok |-> TRUE, n |-> Len(b)]
    [] cl = "10485761" -> [ok |-> TRUE, n |-> MAX_BODY + 1]
    [] cl = "-1" -> [ok |-> TRUE, n |-> -1]
    [] OTHER -> [ok |-> FALSE, n |-> 0]

\* reader.read(n): at most n bytes, as soon as some have arrived; a body sent in
\* several segments is returned up to the end of the first; a negative n reads
\* all the client sent, up to its end of file
ReadResults(n, b) ==
  IF n = 0 THEN {""}
  ELSE IF n < 0 THEN {b}
  ELSE {b} \cup (CASE b = "{}" -> {"{"}
                   [] b = "payload={}" -> {"payload={"}
                   [] OTHER -> {})

Request(ntok, method, path, query, sig, ct, cl, body) ==
  [ntok |-> ntok, method |-> method, path |-> path, query |-> query, sig |-> sig,
   ctype |-> ct, clen |-> cl, body |-> body]

NoRequest == Request(0, "", "", <<>>, NoHeader, "", "", "")

\* the requests a client may send: every POST to a forge path, the requests the
\* cycle turns away before it reads a body, and requests with several defects at once
Requests ==
  UNION {{Request(3, "POST", p, q, h, ct, cl, b) :
            p \in ForgePaths, q \in Queries, h \in SigHeaders(b), ct \in ContentTypes,
            cl \in {"", "len"}} : b \in Bodies}
  \cup {Request(3, "POST", p, q, NoHeader, "application/json", cl, "{}") :
            p \in ForgePaths, q \in {<<>>, <<"bad">>}, cl \in {"10485761", "abc", "-1"}}
  \cup {Request(3, m, p, <<>>, NoHeader, "application/json", "len", "{}") :
            m \in {"GET", "POST"}, p \in Paths}
  \cup {Request(3, m, p, <<>>, NoHeader, "application/json", cl, "{") :
            m \in {"GET", "POST"}, p \in Paths, cl \in {"len", "10485761"}}
  \cup {Request(1, "", "", <<>>, NoHeader, "", "", ""),
        Request(1, "GET", "", <<>>, NoHeader, "application/json", "10485761", "{")}

\* hmac.compare_digest on two str: TypeError when one holds a non-ASCII character
CompareDigest(a, b) ==
  IF a.t = "nonascii" \/ b.t = "nonascii" THEN "TypeError"
  ELSE IF a = b THEN "True" ELSE "False"

\* hmac.compare_digest on two bytes objects
CompareDigestBytes(a, b) == IF a = b THEN "True" ELSE "False"

\* WebhookServer._verify_hmac
VerifyHmac(forge, h, body, secret) ==
  CASE forge = "github" ->
         LET sig == HeaderGet(h, "X-Hub-Signature-256")
         IN IF ~sig.pfx THEN "False"
            ELSE CompareDigest(Strip7(sig), HexDigest(secret, body))
    [] forge = "gitea" ->
         CompareDigest(HeaderGet(h, "X-Gitea-Signature"), HexDigest(secret, body))
    [] forge = "gitlab" ->
         CompareDigestBytes(HeaderGet(h, "X-Gitlab-Token"), Text(secret))
    [] OTHER -> "True"

\* the connection as one record, so that the calls of the cycle compose
Conn == [resp |-> wresp, closed |-> wclosed, task |-> wtask, body |-> wbody,
         read |-> wread, parsed |-> wparsed, sigchecked |-> wsigchecked, exc |-> wexc]

FreshConn == [resp |-> <<>>, closed |-> FALSE, task |-> "none", body |-> "",
              read |-> FALSE, parsed |-> FALSE, sigchecked |-> FALSE, exc |-> FALSE]

\* WebhookServer._respond
Respond(c, code) == [c EXCEPT !.resp = Append(@, code)]

\* mutant of Raise: the exception logged and left unanswered
RaiseUnanswered(c) == [c EXCEPT !.exc = TRUE]

\* _handle's except clause: an exception out of _dispatch is answered 500
Raise(c) == Respond([c EXCEPT !.exc = TRUE], 500)

\* mutant of Accept: the delivery callback awaited before the response is written
AcceptAwaitingDelivery(c) == [c EXCEPT !.task = "running"]

\* _dispatch's last two lines: the 200 response, then asyncio.create_task(self._deliver(...))
Accept(c) == [Respond(c, 200) EXCEPT !.task = "pending"]

\* _dispatch, "Parse body"; UnicodeDecodeError is caught by _handle, which responds 500
ParseBody(c, ct, body) ==
  IF ~Decodable(body) THEN Raise(c)
  ELSE LET raw == IF IsForm(ct) THEN Payload(body) ELSE body
           c1  == [c EXCEPT !.parsed = TRUE]
       IN IF JsonValid(raw) THEN Accept(c1) ELSE Respond(c1, 400)

\* mutant of Enforced: verification enforced without a configured secret
EnforcedAlways(secret) == TRUE

\* _dispatch: `if expected_secret`
Enforced(secret) == secret # NoSecret

\* mutant of UrlMode: the URL token never looked at
UrlModeNever(url) == FALSE

\* _dispatch: `if url_secret is not None`
UrlMode(url) == url.some

\* _dispatch, "Verification": "pass", "deny" (403) or "raise" (TypeError out of
\* compare_digest), and whether _verify_hmac was called
Verify(forge, req, body, secret) ==
  IF ~Enforced(secret) THEN [r |-> "pass", chk |-> FALSE]
  ELSE LET url == UrlSecret(req.query)
       IN IF UrlMode(url)
          THEN [r |-> IF CompareDigestBytes(url.v, secret) = "True" THEN "pass" ELSE "deny",
                chk |-> FALSE]
          ELSE LET x == VerifyHmac(forge, req.sig, body, secret)
               IN [r |-> CASE x = "True" -> "pass" [] x = "False" -> "deny" [] OTHER -> "raise",
                   chk |-> TRUE]

\* _dispatch from the return of the body read to its end
AfterBody(c, cfg, req, body) ==
  LET forge == CleanPath(req.path)
      ver   == Verify(forge, req, body, SecretsGet(cfg, forge))
      c1    == [c EXCEPT !.body = body, !.read = TRUE, !.sigchecked = ver.chk]
  IN CASE ver.r = "deny" -> Respond(c1, 403)
       [] ver.r = "raise" -> Raise(c1)
       [] OTHER -> ParseBody(c1, req.ctype, body)

\* mutant of Finish: the writer closed at the end of the try block, not in a finally
FinishWithoutFinally(c) ==
  /\ wresp' = c.resp
  /\ wclosed' = ~c.exc
  /\ wtask' = c.task
  /\ wbody' = c.body
  /\ wread' = c.read
  /\ wparsed' = c.parsed
  /\ wsigchecked' = c.sigchecked
  /\ wexc' = c.exc
  /\ wpc' = "done"

\* _handle's finally: writer.close(); the cycle is over
Finish(c) ==
  /\ wresp' = c.resp
  /\ wclosed' = TRUE
  /\ wtask' = c.task
  /\ wbody' = c.body
  /\ wread' = c.read
  /\ wparsed' = c.parsed
  /\ wsigchecked' = c.sigchecked
  /\ wexc' = c.exc
  /\ wpc' = "done"

\* asyncio.start_server calls _handle for a new connection
WebAccept ==
  /\ wpc = "idle"
  /\ wpc' = "reqline"
  /\ \E req \in Requests : wreq' = req
  /\ UNCHANGED <<whdr, wsecrets, wbody, wresp, wclosed, wtask, wread, wparsed, wsigchecked, wexc>>
  /\ UNCHANGED nonweb

\* the request line arrives: fewer than two parts -> 400
WebReqLine ==
  /\ wpc = "reqline"
  /\ IF wreq.ntok < 2
     THEN Finish(Respond(Conn, 400))
     ELSE /\ wpc' = "headers"
          /\ UNCHANGED <<wbody, wresp, wclosed, wtask, wread, wparsed, wsigchecked, wexc>>
  /\ UNCHANGED <<whdr, wsecrets, wreq>>
  /\ UNCHANGED nonweb

\* the values a client gives its X-Pad header lines
PadVals == {"1", "2"}

\* a header line other than the blank one arrives within its 10 s:
\* `headers[k.strip()] = v.strip()`, and the loop reads on
WebHeaderLine ==
  /\ wpc = "headers"
  /\ \E v \in PadVals \ {whdr} : whdr' = v
  /\ UNCHANGED <<wsecrets, wreq, wpc, wbody, wresp, wclosed, wtask, wread, wparsed, wsigchecked,
                 wexc>>
  /\ UNCHANGED nonweb

\* mutant of WebHeaders: the path looked at before the method
WebHeadersPathFirst ==
  /\ wpc = "headers"
  /\ LET n == ContentLength(wreq.clen, wreq.body)
     IN CASE CleanPath(wreq.path) \notin Forges -> Finish(Respond(Conn, 404))
          [] CleanPath(wreq.path) \in Forges /\ wreq.method # "POST" ->
               Finish(Respond(Conn, 405))
          [] wreq.method = "POST" /\ CleanPath(wreq.path) \in Forges /\ ~n.ok ->
               Finish(Raise(Conn))
          [] wreq.method = "POST" /\ CleanPath(wreq.path) \in Forges /\ n.ok /\ n.n > MAX_BODY ->
               Finish(Respond(Conn, 413))
          [] OTHER ->
               /\ wpc' = "body"
               /\ UNCHANGED <<wbody, wresp, wclosed, wtask, wread, wparsed, wsigchecked, wexc>>
  /\ UNCHANGED <<whdr, wsecrets, wreq>>
  /\ UNCHANGED nonweb

\* the blank line after the headers arrives: method, path, Content-Length
WebHeaders ==
  /\ wpc = "headers"
  /\ LET n == ContentLength(wreq.clen, wreq.body)
     IN CASE wreq.method # "POST" -> Finish(Respond(Conn, 405))
          [] wreq.method = "POST" /\ CleanPath(wreq.path) \notin Forges ->
               Finish(Respond(Conn, 404))
          [] wreq.method = "POST" /\ CleanPath(wreq.path) \in Forges /\ ~n.ok ->
               Finish(Raise(Conn))
          [] wreq.method = "POST" /\ CleanPath(wreq.path) \in Forges /\ n.ok /\ n.n > MAX_BODY ->
               Finish(Respond(Conn, 413))
          [] OTHER ->
               /\ wpc' = "body"
               /\ UNCHANGED <<wbody, wresp, wclosed, wtask, wread, wparsed, wsigchecked, wexc>>
  /\ UNCHANGED <<whdr, wsecrets, wreq>>
  /\ UNCHANGED nonweb

\* reader.read(content_length) returns: verification, parsing, the response, and
\* the delivery task
WebBody(body) ==
  /\ wpc = "body"
  /\ body \in ReadResults(ContentLength(wreq.clen, wreq.body).n, wreq.body)
  /\ Finish(AfterBody(Conn, wsecrets, wreq, body))
  /\ UNCHANGED <<whdr, wsecrets, wreq>>
  /\ UNCHANGED nonweb

\* asyncio.wait_for times out in a readline (10 s) or in the body read (30 s)
WebTimeout ==
  /\ wpc \in {"reqline", "headers", "body"}
  /\ Finish(Respond(Conn, 408))
  /\ UNCHANGED <<whdr, wsecrets, wreq>>
  /\ UNCHANGED nonweb

\* the event loop starts the delivery task
DeliverStart ==
  /\ wtask = "pending"
  /\ wtask' = "running"
  /\ UNCHANGED <<whdr, wsecrets, wreq, wpc, wbody, wresp, wclosed, wread, wparsed, wsigchecked, wexc>>
  /\ UNCHANGED nonweb

\* the delivery callback returns, or raises into its task
DeliverEnd(how) ==
  /\ wtask = "running"
  /\ wtask' = how
  /\ UNCHANGED <<whdr, wsecrets, wreq, wpc, wbody, wresp, wclosed, wread, wparsed, wsigchecked, wexc>>
  /\ UNCHANGED nonweb

\* ---------------------------------------------------------- Bot._on_webhook

Repos == {"o/r", "x/y"}

\* the rows webhook_add may have stored: target, repository, events, branches
Targets == [network : {"n1"}, channel : {"#a", "#b"}, repo : Repos,
            events : {{"code"}, {"issue"}}, branches : {{}, {"main"}}]

RouteTables == {T \in SUBSET Targets : Cardinality(T) <= MaxTargets}

\* GitHub events: the payload's ref ("": none; a push always has one, _push reads
\* it), the X-GitHub-Event header, the payload's action ("": none), and how many
\* (message, url) pairs parse() returns
GitHubEvents ==
  [repo : {"o/r"}, ref : {"refs/heads/dev", "refs/heads/main"}, ev : {"push"},
   action : {""}, nout : {0, 1}]
  \cup [repo : {"o/r"}, ref : {""}, ev : {"issues"}, action : {"", "opened"}, nout : {0, 1}]

NoEvent == [repo |-> "", ref |-> "", ev |-> "", action |-> "", nout |-> 0]

\* webhook_github.branch: data["ref"].rpartition("/")[2], None ("") without a ref
Branch(e) ==
  CASE e.ref = "refs/heads/dev" -> "dev"
    [] e.ref = "refs/heads/main" -> "main"
    [] OTHER -> ""

\* webhook_github.event: [ev] and, with an action, ev/action
EventParts(e) ==
  {e.ev} \cup (IF e.ev = "issues" /\ e.action = "opened" THEN {"issues/opened"} ELSE {})

\* webhook_github.event_categories, on the categories of the model
EventCategories(c) ==
  CASE c = "code" -> {"push", "commit_comment"}
    [] c = "issue" -> {"issues/opened", "issues/closed", "issue_comment"}
    [] OTHER -> {c}

\* db.webhook_targets' parameters
WebhookTargetsParams == <<"db", "forge", "full_name", "repo_user", "organisation">>

\* the arguments _on_webhook calls db.webhook_targets with
WebhookTargetsArgs(e) == <<"database", e.repo, "o", "">>

\* a Python call with positional arguments only and no default values binds
\* when there are as many arguments as parameters, and raises TypeError otherwise
Binds(params, args) == Len(params) = Len(args)

\* db.webhook_targets: the rows whose repository is among full_name, repo_user,
\* organisation
WebhookTargets(rows, args) == {r \in rows : r.repo \in {args[3], args[4], args[5]} \ {""}}

\* _on_webhook's loop over the targets: the branch filter, then the event filter
Passes(t, e) ==
  /\ ~(Branch(e) # "" /\ t.branches # {} /\ Branch(e) \notin t.branches)
  /\ EventParts(e) \cap UNION {EventCategories(c) : c \in t.events} # {}

\* the delivery task runs Bot._on_webhook for a GitHub event
OnWebhook ==
  /\ rpc = "pending"
  /\ LET args == WebhookTargetsArgs(revent)
     IN IF ~Binds(WebhookTargetsParams, args)
        THEN /\ rpc' = "raised"
             /\ rdelivered' = {}
        ELSE LET targets == WebhookTargets(rroutes, args)
             IN /\ rpc' = "returned"
                /\ rdelivered' = IF revent.nout = 0 THEN {}
                                 ELSE {[network |-> t.network, channel |-> t.channel] :
                                         t \in {u \in targets : Passes(u, revent)}}
  /\ UNCHANGED <<rroutes, revent>>
  /\ UNCHANGED nonroute

\* the rows db.webhook_targets yields for an event: those of its repository
RowsFor(rows, e) == {r \in rows : r.repo = e.repo}

\* _on_webhook's loop over `targets` on its own, from the rows of the event's
\* repository to the _deliver_irc calls
FilterTargets ==
  /\ rpc = "targets"
  /\ rpc' = "filtered"
  /\ rdelivered' = IF revent.nout = 0 THEN {}
                   ELSE {[network |-> t.network, channel |-> t.channel] :
                           t \in {u \in RowsFor(rroutes, revent) : Passes(u, revent)}}
  /\ UNCHANGED <<rroutes, revent>>
  /\ UNCHANGED nonroute

\* ------------------------------------------------------- IRCClient.privmsg

\* byte lengths of the targets
TargetLens == {2, 5, 50}

\* texts: `pre` ASCII characters followed by `n` characters of `w` bytes each in UTF-8
Texts == [pre : {0, 1}, w : 1..4, n : {0, 1, 600, MaxText}]

NoText == [pre |-> 0, w |-> 1, n |-> 0]

\* len(text.encode("utf-8"))
EncodedLen(t) == t.pre + t.n * t.w

\* len(prefix.encode()) for prefix = "PRIVMSG " + target + " :"
PrefixLen(tl) == 8 + tl + 2

\* limit = 510 - len(prefix.encode())
Limit(tl) == 510 - PrefixLen(tl)

\* byte p of the encoded text is the first byte of a character
CharStart(t, p) == p <= t.pre \/ (p - t.pre) % t.w = 0

\* len(chunk.decode("utf-8", errors="replace").encode()) for chunk = encoded[a:b]:
\* every continuation byte at the head of the chunk and the cut character at its
\* end decode to U+FFFD, which is three bytes when the line is encoded again
DecodedLen(t, a, b) ==
  LET stray == IF CharStart(t, a) THEN 0 ELSE Min(t.w - ((a - t.pre) % t.w), b - a)
      a2 == a + stray
      tail == IF CharStart(t, b) \/ b <= a2 THEN 0 ELSE (b - t.pre) % t.w
  IN 3 * stray + (b - a2 - tail) + (IF tail > 0 THEN 3 ELSE 0)

\* the loop of privmsg from byte `off` on: the byte length of every line sent
RECURSIVE ChunkLines(_, _, _)
ChunkLines(tl, t, off) ==
  IF off >= EncodedLen(t) THEN <<>>
  ELSE LET b == Min(off + Limit(tl), EncodedLen(t))
       IN <<PrefixLen(tl) + DecodedLen(t, off, b) + 2>> \o ChunkLines(tl, t, b)

\* IRCClient.privmsg(target, text) on an engine with a writer
Privmsg ==
  /\ ppc = "called"
  /\ ppc' = "returned"
  /\ plines' = ChunkLines(ptarget, ptext, 0)
  /\ UNCHANGED <<ptarget, ptext>>
  /\ UNCHANGED nonmsg

\* ------------------------------------------ IRCClient.privmsg, by content

\* A text is a sequence of characters; "CR" and "LF" stand for \r and \n, every
\* other atom for a run of printable characters.
MaxFrameLen == 3

FrameTargets == {<<"#c">>, <<"nick">>}

FrameChars == {"hi", "QUIT", "CR", "LF"}

FrameTexts == UNION {[1..n -> FrameChars] : n \in 0..MaxFrameLen}

\* privmsg's prefix, f"PRIVMSG {target} :"
FramePrefix(target) == <<"PRIVMSG", " ">> \o target \o <<" ", ":">>

\* IRCClient.send: (line + "\r\n").encode() handed to the writer
SendBytes(line) == line \o <<"CR", "LF">>

\* privmsg's loop for a text shorter than the limit: nothing for the empty text,
\* else one send of the prefix and the text
PrivmsgBytes(target, text) ==
  IF text = <<>> THEN <<>> ELSE SendBytes(FramePrefix(target) \o text)

\* IRCClient.privmsg(target, text) on an engine with a writer
PrivmsgFrame ==
  /\ fpc = "called"
  /\ fpc' = "returned"
  /\ fwritten' = PrivmsgBytes(ftarget, ftext)
  /\ UNCHANGED <<ftarget, ftext>>
  /\ UNCHANGED nonframe

\* ----------------------------------------------------------- specification

FreshWorld ==
  [clients |-> [n \in Names |-> NoEng], nextEng |-> 1,
   pc |-> [e \in EngIds |-> "free"], ename |-> [e \in EngIds |-> ""],
   cfgch |-> [e \in EngIds |-> {}], running |-> [e \in EngIds |-> TRUE],
   sock |-> [e \in EngIds |-> "none"], ready |-> [e \in EngIds |-> FALSE],
   channels |-> [e \in EngIds |-> {}], delay |-> [e \in EngIds |-> RECONNECT_DELAY_MIN],
   cycles |-> [e \in EngIds |-> 0], stops |-> [e \in EngIds |-> 0], fx |-> <<>>,
   added |-> {}, removed |-> {}, updated |-> {}]

\* WebhookServer.__init__ and run: listening, no connection accepted yet
WebIdle(cfg) ==
  /\ wsecrets = cfg
  /\ wreq = NoRequest
  /\ wpc = "idle"
  /\ wbody = FreshConn.body
  /\ wresp = FreshConn.resp
  /\ wclosed = FreshConn.closed
  /\ wtask = FreshConn.task
  /\ wread = FreshConn.read
  /\ wparsed = FreshConn.parsed
  /\ wsigchecked = FreshConn.sigchecked
  /\ wexc = FreshConn.exc
  /\ whdr = ""

\* no webhook event has been handed to _on_webhook
RouteIdle ==
  /\ rroutes = {}
  /\ revent = NoEvent
  /\ rpc = "idle"
  /\ rdelivered = {}

\* no _deliver_irc call was made
DlIdle == dl = NoDelivery

\* no engine's inbound lines are followed
LineIdle ==
  /\ lcfg = NoLineCfg
  /\ lpc = "idle"
  /\ lraw = <<>>
  /\ lchannels = {}
  /\ lready = FALSE
  /\ ldelay = RECONNECT_DELAY_MIN
  /\ lfx = <<>>
  /\ lout = ""
  /\ lncb = 0
  /\ lsaslfail = FALSE
  /\ lnick = <<>>

\* no privmsg call is followed by content
FrameIdle ==
  /\ ftarget = <<>>
  /\ ftext = <<>>
  /\ fpc = "idle"
  /\ fwritten = <<>>

\* privmsg has not been called
MsgIdle ==
  /\ ptarget = 0
  /\ ptext = NoText
  /\ ppc = "idle"
  /\ plines = <<>>

\* Bot.__init__ with no network configured
BotIdle ==
  /\ LET w == FreshWorld
     IN /\ clients = w.clients /\ nextEng = w.nextEng /\ pc = w.pc /\ ename = w.ename
        /\ cfgch = w.cfgch /\ running = w.running /\ sock = w.sock /\ ready = w.ready
        /\ channels = w.channels /\ delay = w.delay /\ cycles = w.cycles
        /\ stops = w.stops /\ wire = <<>>
  /\ rl = [e \in EngIds |-> NoReload]
  /\ sleepq = <<>>
  /\ botcfg = NoCfg
  /\ prevOk = FALSE
  /\ nreload = 0
  /\ ret = NoRet

\* Bot.__init__ and Bot.run: one engine started for every network of the configuration
Init ==
  \E cfg \in Configs :
    LET w == SecondLoop(FreshWorld, cfg, SetToSeq(NewNets(cfg)))
    IN /\ NewNets(cfg) # {}
       /\ clients = w.clients /\ nextEng = w.nextEng /\ pc = w.pc /\ ename = w.ename
       /\ cfgch = w.cfgch /\ running = w.running /\ sock = w.sock /\ ready = w.ready
       /\ channels = w.channels /\ delay = w.delay /\ cycles = w.cycles
       /\ stops = w.stops /\ wire = <<>>
       /\ rl = [e \in EngIds |-> NoReload]
       /\ sleepq = <<>>
       /\ botcfg = cfg
       /\ prevOk = FALSE
       /\ nreload = 0
       /\ ret = NoRet
       /\ WebIdle([f \in Forges |-> NoSecret])
       /\ RouteIdle
       /\ MsgIdle
       /\ DlIdle
       /\ LineIdle
       /\ FrameIdle

Next ==
  \/ \E e \in EngIds : ConnectOK(e)
  \/ \E e \in EngIds : ConnectFail(e)
  \/ \E e \in EngIds : Recv001(e)
  \/ \E e \in EngIds, c \in CfgChans : RecvJoin(e, c)
  \/ \E e \in EngIds, c \in CfgChans : RecvPart(e, c)
  \/ \E e \in EngIds : ConnEnd(e)
  \/ \E e \in EngIds : BackoffDone(e)
  \/ \E h \in EngIds, cfg \in Configs : ReloadStart(h, cfg)
  \/ \E h \in EngIds : ReloadResume(h)
  \/ \E h \in EngIds : ReloadFail(h)
  \/ \E h \in EngIds : PrivmsgOrphan(h)

Spec == Init /\ [][Next]_vars

\* one engine on its own: Bot.run with a single network and no reload command
InitBackoff ==
  /\ Init
  /\ Cardinality(NewNets(botcfg)) = 1

NextBackoff ==
  \/ \E e \in EngIds : ConnectOK(e)
  \/ \E e \in EngIds : ConnectFailB(e, MaxBackoff)
  \/ \E e \in EngIds : Recv001(e)
  \/ \E e \in EngIds, c \in CfgChans : RecvJoin(e, c)
  \/ \E e \in EngIds, c \in CfgChans : RecvPart(e, c)
  \/ \E e \in EngIds : ConnEndB(e, MaxBackoff)
  \/ \E e \in EngIds : BackoffDone(e)

SpecBackoff == InitBackoff /\ [][NextBackoff]_vars

\* the webhook listener on its own: Bot.run with no network configured
InitWeb ==
  /\ \E cfg \in SecretCfgs : WebIdle(cfg)
  /\ BotIdle
  /\ RouteIdle
  /\ MsgIdle
  /\ DlIdle
  /\ LineIdle
  /\ FrameIdle

NextWeb ==
  \/ WebAccept
  \/ WebReqLine
  \/ WebHeaders
  \/ \E body \in Bodies : WebBody(body)
  \/ WebTimeout
  \/ DeliverStart
  \/ \E how \in {"returned", "raised"} : DeliverEnd(how)

SpecWeb == InitWeb /\ [][NextWeb]_vars

\* one webhook connection followed header line by header line, no secret
\* configured; the event loop keeps running, so a step that can be taken is taken
InitWebLive ==
  /\ WebIdle([f \in Forges |-> NoSecret])
  /\ BotIdle
  /\ RouteIdle
  /\ MsgIdle
  /\ DlIdle
  /\ LineIdle
  /\ FrameIdle

NextWebLive ==
  \/ NextWeb
  \/ WebHeaderLine

SpecWebLive == InitWebLive /\ [][NextWebLive]_vars /\ WF_vars(NextWebLive)

\* one verified GitHub event on its way through Bot._on_webhook
InitRoute ==
  /\ rroutes \in RouteTables
  /\ revent \in GitHubEvents
  /\ rpc = "pending"
  /\ rdelivered = {}
  /\ BotIdle
  /\ WebIdle([f \in Forges |-> NoSecret])
  /\ MsgIdle
  /\ DlIdle
  /\ LineIdle
  /\ FrameIdle

NextRoute == OnWebhook

SpecRoute == InitRoute /\ [][NextRoute]_vars

\* _on_webhook's target loop as a function of the event and the stored rows
InitFilter ==
  /\ rroutes \in RouteTables
  /\ revent \in GitHubEvents
  /\ rpc = "targets"
  /\ rdelivered = {}
  /\ BotIdle
  /\ WebIdle([f \in Forges |-> NoSecret])
  /\ MsgIdle
  /\ DlIdle
  /\ LineIdle
  /\ FrameIdle

NextFilter == FilterTargets

SpecFilter == InitFilter /\ [][NextFilter]_vars

\* one engine's connection: registration, then the lines the server sends
InitLine ==
  /\ lcfg \in LineCfgs
  /\ lpc = "connecting"
  /\ lraw = <<>>
  /\ lchannels \in {{}, {<<"#a">>}}
  /\ lready = FALSE
  /\ ldelay \in {RECONNECT_DELAY_MIN, 2 * RECONNECT_DELAY_MIN}
  /\ lfx = <<>>
  /\ lout = ""
  /\ lncb = 0
  /\ lsaslfail = FALSE
  /\ lnick = <<>>
  /\ BotIdle
  /\ WebIdle([f \in Forges |-> NoSecret])
  /\ RouteIdle
  /\ MsgIdle
  /\ DlIdle
  /\ FrameIdle

NextLine ==
  \/ LineConnect
  \/ \E raw \in Lines : HandleLine(raw)

SpecLine == InitLine /\ [][NextLine]_vars

\* one call of privmsg on a connected engine
InitPrivmsg ==
  /\ ptarget \in TargetLens
  /\ ptext \in Texts
  /\ ppc = "called"
  /\ plines = <<>>
  /\ BotIdle
  /\ WebIdle([f \in Forges |-> NoSecret])
  /\ RouteIdle
  /\ DlIdle
  /\ LineIdle
  /\ FrameIdle

NextPrivmsg == Privmsg

SpecPrivmsg == InitPrivmsg /\ [][NextPrivmsg]_vars

\* one call of privmsg on a connected engine, followed by content
InitFrame ==
  /\ ftarget \in FrameTargets
  /\ ftext \in FrameTexts
  /\ fpc = "called"
  /\ fwritten = <<>>
  /\ BotIdle
  /\ WebIdle([f \in Forges |-> NoSecret])
  /\ RouteIdle
  /\ MsgIdle
  /\ DlIdle
  /\ LineIdle

NextFrame == PrivmsgFrame

SpecFrame == InitFrame /\ [][NextFrame]_vars

\* the engines and one reload command, with deliveries arriving from the webhook path
InitDeliver == Init

NextDeliver ==
  \/ \E e \in EngIds : ConnectOK(e)
  \/ \E e \in EngIds : ConnectFailB(e, MaxDeliverCycles)
  \/ \E e \in EngIds : Recv001(e)
  \/ \E e \in EngIds, c \in CfgChans : RecvJoin(e, c)
  \/ \E e \in EngIds, c \in CfgChans : RecvPart(e, c)
  \/ \E e \in EngIds : ConnEndB(e, MaxDeliverCycles)
  \/ \E e \in EngIds : BackoffDone(e)
  \/ \E h \in EngIds, cfg \in Configs : ReloadStartB(h, cfg, MaxDeliverReloads)
  \/ \E h \in EngIds : ReloadResume(h)
  \/ \E network \in Names, channel \in DeliverChans : DeliverCall(network, channel)
  \/ DeliverResume

SpecDeliver == InitDeliver /\ [][NextDeliver]_vars

\* ------------------------------------------------------------------ claims

ReloadStep(r) == r.kind \in {"susp", "ok", "raise"}

\* the channels of the lines with command `cmd` that the reload wrote to engine e
SentBy(fx, e, cmd) ==
  {fx[i].arg : i \in {j \in 1..Len(fx) : fx[j].k = "send" /\ fx[j].by = "reload"
                                          /\ fx[j].e = e /\ fx[j].cmd = cmd}}

RECURSIVE Pow2(_)
Pow2(n) == IF n <= 0 THEN 1 ELSE 2 * Pow2(n - 1)

\* C1: when a reload call ends, every network that was in the topology when it was
\* called and is absent from the new configuration has had stop() called on its
\* engine exactly once, and the name has no entry in the topology; for every
\* interleaving of reload calls.
C1_RemovedStoppedOnce ==
  ret.kind \in {"ok", "raise"} =>
    \A n \in Names :
      (ret.snap[n] # NoEng /\ ~ret.cfg[n].present) =>
        (stops[ret.snap[n]] = 1 /\ clients[n] = NoEng)

\* C2: no step of a reload stops, replaces or ends the engine registered under a
\* name that the new configuration also holds: the same IRCClient stays
\* registered, stop() is not called on it, its run task does not end unless
\* stop() had been called on it before the step, the socket of an engine other
\* than the one handling the command is not touched, and when its joined set
\* equals the configured set the reload writes no line to it.
C2_KeptEngineUntouched ==
  [][ReloadStep(ret') =>
       \A n \in Names :
         (clients[n] # NoEng /\ ret'.cfg[n].present) =>
           LET e == clients[n]
           IN /\ clients'[n] = e
              /\ running'[e] = running[e]
              /\ stops'[e] = stops[e]
              /\ (pc'[e] = "done" => pc[e] = "done" \/ ~running[e])
              /\ (e # ret'.host => pc'[e] = pc[e] /\ sock'[e] = sock[e])
              /\ \A i \in 1..Len(wire') :
                    /\ wire'[i].k \in {"start", "stop", "purge_network"} => wire'[i].n # n
                    /\ (channels[e] = LowerSet(ret'.cfg[n].chans) /\ wire'[i].by = "reload")
                          => wire'[i].e # e
     ]_vars

\* C2 witness: a reload that removed a network returned, and a network it kept has
\* its engine connected with exactly the configured channels joined
C2_Witness ==
  /\ ret.kind = "ok"
  /\ ret.removed # {}
  /\ \E n \in Names :
       /\ ret.cfg[n].present
       /\ ret.snap[n] # NoEng
       /\ clients[n] = ret.snap[n]
       /\ sock[clients[n]] = "open"
       /\ channels[clients[n]] = LowerSet(ret.cfg[n].chans)

\* C3: for a network kept by a reload, with cur the engine's joined set and new the
\* lower-cased configured set, the reload writes JOIN for exactly new \ cur and
\* PART for exactly cur \ new.
C3_ExactDiffSent ==
  [][ret'.kind = "ok" =>
       \A n \in Names :
         (clients[n] # NoEng /\ ret'.cfg[n].present) =>
           LET e   == clients[n]
               new == LowerSet(ret'.cfg[n].chans)
               cur == channels[e]
           IN /\ SentBy(wire', e, "JOIN") = new \ cur
              /\ SentBy(wire', e, "PART") = cur \ new
     ]_vars

\* C4: a reload that follows a returned reload with an identical configuration, no
\* other reload in between, does nothing (no engine started or stopped, no line
\* written, nothing purged) and reports no network changes.
C4_SecondReloadNoop ==
  (ret.kind = "ok" /\ ret.same) =>
    (~ret.acc /\ ret.added = {} /\ ret.removed = {} /\ ret.updated = {})

\* C5: the delay an engine sleeps before a retry is min(5 * 2^(N-1), 300), N being
\* the connection cycles that have ended since the engine was made or, once a 001
\* was received, since (and with) the cycle that received it; so the retry after
\* a cycle with a 001 sleeps 5.
C5_BackoffLaw ==
  \A e \in EngIds :
    pc[e] = "backoff" =>
      delay[e] = Min(RECONNECT_DELAY_MIN * Pow2(cycles[e] - 1), RECONNECT_DELAY_MAX)

\* C5 witness: an engine that had joined a channel (so had received a 001) is in its
\* backoff sleep after 7 cycles ended in a row, at the ceiling
C5_Witness ==
  \E e \in EngIds :
    /\ pc[e] = "backoff"
    /\ channels[e] # {}
    /\ cycles[e] = 7
    /\ delay[e] = RECONNECT_DELAY_MAX

\* the forge a request is addressed to, and the secret configured for it
WForge == CleanPath(wreq.path)

WSecret == IF WForge \in Forges THEN wsecrets[WForge] ELSE NoSecret

\* the cycle is over and had read the request's body
WBodyRead == wpc = "done" /\ wread

\* the body read (for a form-encoded request its payload field) parses as JSON
WJson == JsonValid(IF IsForm(wreq.ctype) THEN Payload(wbody) ELSE wbody)

\* what a request whose verification passed or was skipped is answered
WAnswer == IF ~Decodable(wbody) THEN <<500>> ELSE IF WJson THEN <<200>> ELSE <<400>>

\* the request carries the forge's signature header and it is valid for the body read
WValidHeader ==
  CASE WForge = "github" ->
         wreq.sig = [name |-> "X-Hub-Signature-256", val |-> Prefixed(HexDigest(WSecret, wbody))]
    [] WForge = "gitea" ->
         wreq.sig = [name |-> "X-Gitea-Signature", val |-> HexDigest(WSecret, wbody)]
    [] WForge = "gitlab" ->
         wreq.sig = [name |-> "X-Gitlab-Token", val |-> Text(WSecret)]
    [] OTHER -> FALSE

C7_WrongUrlSecretRejected ==
  (WBodyRead /\ WSecret # NoSecret /\ wreq.query # <<>>
     /\ \A i \in 1..Len(wreq.query) : wreq.query[i] # WSecret)
    => (wresp # <<200>> /\ wtask = "none")

\* C8: with a secret configured, a request that reached verification and did not
\* pass it (its URL secret differs, or it has none and no valid signature header)
\* is answered 403, its body is not parsed and no delivery is started.
C8_UnverifiedGets403 ==
  (WBodyRead /\ WSecret # NoSecret) =>
    LET url    == UrlSecret(wreq.query)
        passed == IF url.some THEN url.v = WSecret ELSE WValidHeader
    IN ~passed => (wresp = <<403>> /\ ~wparsed /\ wtask = "none")

\* C9: with a secret configured, a request whose URL secret (the first non-blank
\* `secret` parameter) equals it passes verification with no signature header
\* checked: it is never answered 403, and is answered as its body alone decides.
C9_UrlSecretSuffices ==
  (WBodyRead /\ WSecret # NoSecret /\ UrlSecret(wreq.query) = Some(WSecret)) =>
    /\ ~wsigchecked
    /\ wresp # <<403>>
    /\ wresp = WAnswer
    /\ wtask # "none" <=> wresp = <<200>>

\* C9 witness: the URL secret equals the configured one, the request carries a
\* signature header that is not valid, and it is answered 200
C9_Witness ==
  /\ WBodyRead /\ WSecret # NoSecret /\ UrlSecret(wreq.query) = Some(WSecret)
  /\ wreq.sig # NoHeader /\ ~WValidHeader
  /\ wresp = <<200>>

\* C10: whenever the delivery task exists, the 200 response has been written, it is
\* the only response, and the connection has been closed; and no step taken while the
\* delivery is pending or running (its start, its return, its raising) changes
\* the responses written or the closing.
C10_ResponseBeforeDelivery ==
  [](wtask # "none" => (wresp = <<200>> /\ wclosed /\ wpc = "done"))
  /\ [][(wtask \in {"pending", "running"}) => (wresp' = wresp /\ wclosed' = wclosed)]_vars

\* C10 witness: the delivery callback raised after the 200 was written and the
\* connection closed
C10_Witness == wtask = "raised" /\ wresp = <<200>> /\ wclosed

\* C11: when the request cycle is over the writer has been closed, whatever the
\* path (any status, a timeout, an exception), and a cycle in which an exception
\* was raised has answered 500 and nothing else; the writer is not closed before
\* the cycle is over.
C11_AlwaysClosed ==
  /\ wpc = "done" => wclosed
  /\ wclosed => wpc = "done"
  /\ wexc => wresp = <<500>>
  /\ wpc = "done" => Len(wresp) = 1

\* C11 witness: an exception was raised after the body had been read, 500 was
\* answered and the writer closed
C11_Witness == wpc = "done" /\ wexc /\ wread /\ wresp = <<500>> /\ wclosed

\* a status code of the 4xx class
Is4xx(code) == code >= 400 /\ code <= 499

\* the request has an input error: a malformed request line, a Content-Length
\* that is not a number, is negative or is above the limit, or a body read that
\* is not UTF-8 or does not parse as JSON
WInputError ==
  \/ wreq.ntok < 2
  \/ wreq.clen \in {"abc", "-1", "10485761"}
  \/ wread /\ ~Decodable(wbody)
  \/ wread /\ Decodable(wbody) /\ ~WJson

\* C12: a request with an input error is answered with one status of the 4xx
\* class, never 500 and never 200.
C12_InputErrors4xx ==
  (wpc = "done" /\ WInputError) => (Len(wresp) = 1 /\ Is4xx(wresp[1]))

\* C13: a push to refs/heads/dev of a repository with two stored targets, both
\* subscribed to the code category, one allowing only branch main and one with no
\* branch list, for which parse() returns a message, ends with _deliver_irc called
\* for the unfiltered target and for no other.
C13_OnlyUnfilteredTarget ==
  (/\ rpc \in {"returned", "raised"}
   /\ revent.ev = "push" /\ revent.ref = "refs/heads/dev" /\ revent.nout > 0
   /\ \E a, b \in Targets :
        /\ rroutes = {a, b}
        /\ a.repo = revent.repo /\ b.repo = revent.repo
        /\ a.events = {"code"} /\ b.events = {"code"}
        /\ a.branches = {"main"} /\ b.branches = {}
        /\ a.channel # b.channel)
    => \E b \in rroutes :
         /\ b.branches = {}
         /\ rdelivered = {[network |-> b.network, channel |-> b.channel]}

\* C14: every line privmsg writes, counted in bytes with the "PRIVMSG <target> :"
\* prefix and the closing CRLF, is at most 512 bytes long, whether the text is
\* ASCII or multi-byte UTF-8.
C14_LinesWithin512 ==
  ppc = "returned" => \A i \in 1..Len(plines) : plines[i] <= 512

\* stop() was called on engine e and every call of it has returned: no reload is
\* asleep inside stop() on e
StopReturned(e) ==
  /\ stops[e] > 0
  /\ \A h \in EngIds : ~(pc[h] = "reload" /\ rl[h].active /\ rl[h].tgt = e)

\* C15: in whatever phase stop() is called on an engine, once it has returned the
\* engine has no open socket, and the engine starts no new connection attempt.
C15_StoppedHasNoSocket ==
  [](\A e \in EngIds : StopReturned(e) => sock[e] # "open")
  /\ [][\A e \in EngIds :
          (stops[e] > 0 /\ pc'[e] = "connecting") => pc[e] = "connecting"]_vars

\* C16: the run loop of an engine has ended only if stop() was called on it; a
\* connection cycle that fails on an engine stop() was not called on leaves it
\* disconnected (no socket, not ready) in its backoff sleep, and the sleep is
\* followed by a new connection attempt.
C16_RunEndsOnlyAfterStop ==
  [](\A e \in EngIds : pc[e] = "done" => stops[e] > 0)
  /\ [][\A e \in EngIds :
          (cycles'[e] = cycles[e] + 1 /\ stops'[e] = 0)
            => (pc'[e] = "backoff" /\ sock'[e] = "none" /\ ~ready'[e])]_vars
  /\ [][\A e \in EngIds :
          (pc[e] = "backoff" /\ pc'[e] # "backoff" /\ stops'[e] = 0)
            => pc'[e] = "connecting"]_vars

\* an engine nobody stopped had a connection cycle fail, slept its backoff with the
\* delay doubled, and is connecting again
C16_Witness ==
  \E e \in EngIds :
    /\ stops[e] = 0 /\ cycles[e] > 0 /\ delay[e] > RECONNECT_DELAY_MIN
    /\ pc[e] = "connecting" /\ sock[e] = "none" /\ ~ready[e]

\* an engine whose run task has not ended or whose socket is open
Live(e) == pc[e] \notin {"free", "done"} \/ sock[e] = "open"

\* C17: at every reachable state no two live engines carry the same network name,
\* and every engine of the topology has a run task that is connecting, connected
\* (handling a line included) or in its backoff sleep.
C17_OneLiveEnginePerName ==
  /\ \A e, f \in EngIds : (Live(e) /\ Live(f) /\ ename[e] = ename[f]) => e = f
  /\ \A n \in Names :
       clients[n] # NoEng => pc[clients[n]] \in {"connecting", "connected", "reload", "backoff"}

\* the lines the last step of a _deliver_irc call wrote
DeliverWrites == {i \in 1..Len(wire) : wire[i].k = "send" /\ wire[i].by = "deliver"}

\* C18: every PRIVMSG a delivery writes for a channel is written while the channel
\* is in the joined-channel set of the engine it is written to.
C18_PrivmsgOnlyWhenJoined ==
  \A i \in DeliverWrites :
    wire[i].cmd = "PRIVMSG" => Lower(wire[i].arg) \in channels[wire[i].e]

\* C19: a _deliver_irc call for a network name that has no entry in the topology
\* writes nothing, starts no engine, leaves the topology unchanged, and ends at
\* once as dropped: it raises nothing and leaves nothing pending.
C19_AbsentNetworkDropped ==
  [][\A n \in Names :
       (dl' # dl /\ dl.phase \in {"none", "done"} /\ dl'.net = n /\ clients[n] = NoEng)
         => /\ wire' = <<>>
            /\ clients' = clients
            /\ nextEng' = nextEng
            /\ pc' = pc
            /\ dl'.phase = "done" /\ dl'.out = "dropped"]_vars

\* a delivery for a name a reload removed was dropped while another engine is
\* registered with its socket open
C19_Witness ==
  /\ dl.phase = "done" /\ dl.out = "dropped"
  /\ dl.net \in Names /\ clients[dl.net] = NoEng
  /\ wire = <<>>
  /\ nreload > 0
  /\ \E e \in EngIds : sock[e] = "open" /\ ready[e] /\ ename[e] = dl.net
  /\ \E e \in EngIds : sock[e] = "open" /\ ready[e] /\ clients[ename[e]] = e

\* C20: once stop() was called on an engine, no delivery writes a PRIVMSG or a JOIN
\* to that engine's socket, whether the delivery looks the engine up afterwards or
\* was waiting in its 2-second delay.
C20_NoWriteAfterStop ==
  \A i \in DeliverWrites : stops[wire[i].e] = 0

\* C21: whenever a reload call is suspended, stop() was called on no engine that
\* still has an entry in the topology, so a lookup made by a concurrent delivery
\* or reload never obtains a stopped engine.
C21_NoStoppedEngineInTopology ==
  (\E h \in EngIds : pc[h] = "reload" /\ rl[h].active)
    => \A n \in Names : clients[n] # NoEng => stops[clients[n]] = 0

\* C22: a reload whose configuration cannot be loaded replies with the failure text
\* and does nothing else: it stops and starts no engine, writes no JOIN or PART,
\* purges nothing, and leaves the stored configuration and the topology as they were.
C22_FailedReloadLeavesState ==
  [][ret'.kind = "failed"
       => /\ \A i \in 1..Len(wire') :
               wire'[i].k = "send" /\ wire'[i].by = "reply" /\ wire'[i].cmd = "PRIVMSG"
          /\ clients' = clients /\ nextEng' = nextEng /\ botcfg' = botcfg
          /\ pc' = pc /\ running' = running /\ stops' = stops /\ sock' = sock
          /\ channels' = channels /\ cfgch' = cfgch /\ ename' = ename]_vars

\* a reload failed to load its file while a network was registered, and only the
\* reply was written
C22_Witness ==
  /\ ret.kind = "failed"
  /\ Len(wire) = 1 /\ wire[1].by = "reply"
  /\ botcfg # NoCfg
  /\ clients[ename[ret.host]] = ret.host /\ ready[ret.host]

\* the defects of the request on the connection
DMalformed == wreq.ntok < 2
DMethod == wreq.method # "POST"
DPath == CleanPath(wreq.path) \notin Forges
DTooLarge == wreq.clen = "10485761"
DVerify ==
  wread /\ Verify(CleanPath(wreq.path), wreq, wbody,
                  SecretsGet(wsecrets, CleanPath(wreq.path))).r = "deny"
DJson == wread /\ Decodable(wbody) /\ ~WJson

\* C23: a request cycle that ran to its end without a timeout and without an
\* exception answers with the status of the earliest defect of the request, in
\* the order 400 (request line), 405, 404, 413 (no body read), 403, 400 (JSON);
\* and the statuses after the request line's are written only once the headers
\* have been read.
C23_EarliestDefectWins ==
  []((wpc = "done" /\ wresp # <<408>> /\ ~wexc)
       => /\ DMalformed => wresp = <<400>>
          /\ (~DMalformed /\ DMethod) => wresp = <<405>>
          /\ (~DMalformed /\ ~DMethod /\ DPath) => wresp = <<404>>
          /\ (~DMalformed /\ ~DMethod /\ ~DPath /\ DTooLarge) => (wresp = <<413>> /\ ~wread)
          /\ (~DMalformed /\ ~DMethod /\ ~DPath /\ ~DTooLarge /\ DVerify)
               => (wresp = <<403>> /\ ~wparsed)
          /\ (~DMalformed /\ ~DMethod /\ ~DPath /\ ~DTooLarge /\ ~DVerify /\ DJson)
               => wresp = <<400>>)
  /\ [][(wresp' # wresp /\ wresp'[1] \in {405, 404, 413, 403, 200})
          => wpc \in {"headers", "body"}]_vars

\* a GET for an unknown path that declares a body above the limit was answered 405
C23_Witness ==
  /\ wpc = "done" /\ wresp = <<405>>
  /\ DMethod /\ DPath /\ DTooLarge /\ ~DMalformed

\* C24: when the client sends a body of exactly Content-Length bytes, in one or in
\* several segments, the bytes verified and parsed are exactly that body, and a
\* request that is valid and, where a secret is configured, correctly signed is
\* answered 200.
C24_WholeBodyUsed ==
  (wpc = "done" /\ wread /\ wreq.clen = "len")
    => /\ wbody = wreq.body
       /\ (/\ Decodable(wreq.body)
           /\ JsonValid(IF IsForm(wreq.ctype) THEN Payload(wreq.body) ELSE wreq.body)
           /\ Verify(CleanPath(wreq.path), wreq, wreq.body,
                     SecretsGet(wsecrets, CleanPath(wreq.path))).r = "pass")
            => wresp = <<200>>

\* the only row of the table for its network and channel
OnlyRowFor(t) ==
  \A u \in rroutes : (u.network = t.network /\ u.channel = t.channel) => u = t

PingToken(raw) ==
  LET rest == SubSeq(raw, 3, Len(raw))
  IN IF StartsWith(rest, ":") THEN Tail(rest) ELSE rest

\* C26: a PING line is answered by exactly one PONG carrying the PING's token,
\* sent with or without a leading colon and whatever it contains, and nothing
\* else is done with the line.
C26_PongSameToken ==
  (lout = "returned" /\ StartsWith(lraw, "PING"))
    => /\ lfx = <<Sent(<<"PONG", " ", ":">> \o PingToken(lraw))>>
       /\ lpc = "reading"


\* the JOIN lines among the effects, in order
JoinsSent == SelectSeq(lfx, LAMBDA e : e.k = "send" /\ StartsWith(e.v, "JOIN"))

IdentifyLine == Sent(<<"PRIVMSG", " ", "NickServ", " ", ":", "IDENTIFY">>)

\* C27: on 001 the engine, in this order, resets the reconnect delay to 5, sends
\* the NickServ IDENTIFY line if a NickServ password is configured, sends one
\* JOIN per configured channel, marks itself ready and invokes the connected
\* callback, once for the connection.
C27_WelcomeInOrder ==
  /\ lncb <= 1
  /\ (lout = "returned" /\ Contains(lraw, "001"))
       => LET k == IF lcfg.nickserv THEN 1 ELSE 0
              c == Len(lcfg.chans)
          IN /\ Len(lfx) = 3 + k + c
             /\ lfx[1] = Assigned("_reconnect_delay")
             /\ ldelay = 5
             /\ lcfg.nickserv => lfx[2] = IdentifyLine
             /\ \A i \in 1..c : lfx[1 + k + i] = Sent(<<"JOIN", " ", lcfg.chans[i]>>)
             /\ Len(JoinsSent) = c
             /\ lfx[2 + k + c] = Assigned("_ready")
             /\ lready
             /\ lfx[3 + k + c] = Called("on_connected")
             /\ lncb = 1

\* a 001 was handled on a connection whose delay had grown, with a NickServ
\* password and two channels configured
C27_Witness ==
  /\ lout = "returned"
  /\ Contains(lraw, "001")
  /\ lcfg.nickserv
  /\ Len(lcfg.chans) = 2
  /\ Len(JoinsSent) = 2
  /\ lready
  /\ lncb = 1


\* the part of a server line after the prefix: its command or numeric
Numeric(raw) == IF Len(SplitOn(raw, " ")) >= 2 THEN SplitOn(raw, " ")[2] ELSE <<>>

\* C28: with SASL-PLAIN configured, CAP REQ :sasl is sent before NICK and USER,
\* CAP ACK is answered with AUTHENTICATE PLAIN, the AUTHENTICATE prompt with the
\* base64 token, each of 903, 904 and 905 with CAP END; a 904 or 905 does not
\* close the connection, and a 001 after it completes the registration.
C28_SaslNegotiation ==
  lcfg.sasl =>
    /\ (lpc = "reading" /\ lout = "")
         => /\ Len(lfx) = 3
            /\ lfx[1] = Sent(<<"CAP", " ", "REQ", " ", ":", "sasl">>)
            /\ StartsWith(lfx[2].v, "NICK")
            /\ StartsWith(lfx[3].v, "USER")
    /\ (lout # "" /\ Numeric(lraw) = <<"CAP">> /\ Contains(lraw, "ACK"))
         => lout = "returned" /\ lfx = <<Sent(<<"AUTHENTICATE", " ", "PLAIN">>)>>
    /\ (lout # "" /\ StartsWith(lraw, "AUTHENTICATE"))
         => lout = "returned" /\ lfx = <<Sent(<<"AUTHENTICATE", " ", "b64(user,password)">>)>>
    /\ (lout # "" /\ Numeric(lraw) \in {<<"903">>, <<"904">>, <<"905">>})
         => lout = "returned" /\ lfx = <<Sent(<<"CAP", " ", "END">>)>> /\ lpc = "reading"
    /\ (lsaslfail /\ lout # "" /\ Numeric(lraw) = <<"001">>)
         => lout = "returned" /\ lready /\ lncb = 1 /\ lpc = "reading"

\* SASL is configured, the authentication failed, and a later 001 was handled
C28_Witness ==
  /\ lcfg.sasl
  /\ lsaslfail
  /\ Numeric(lraw) = <<"001">>
  /\ lout = "returned"
  /\ lready


\* who a JOIN, PART or KICK line concerns: the user of the prefix for JOIN and
\* PART, the user named after the channel for KICK
Concerns(raw) ==
  LET parts == SplitOn(raw, " ")
  IN IF Numeric(raw) = <<"KICK">>
     THEN (IF Len(parts) >= 4 THEN parts[4] ELSE <<>>)
     ELSE SplitOn(LStrip(parts[1], ":"), "!")[1]

\* a JOIN, PART or KICK line that names a channel
MembershipLine(raw) ==
  /\ Numeric(raw) \in {<<"JOIN">>, <<"PART">>, <<"KICK">>}
  /\ Len(SplitOn(raw, " ")) >= 3

\* the lower-cased channel such a line names
LineChannel(raw) == LowerSeq(LStrip(SplitOn(raw, " ")[3], ":"))

\* C29: handling a line changes the joined set only if it is a JOIN, PART or
\* KICK that concerns the bot's own nickname: a JOIN by the bot adds the
\* lower-cased channel, a PART by the bot or a KICK of the bot removes it, and a
\* JOIN, PART or KICK that concerns another user leaves the set unchanged and
\* triggers no rejoin.
C29_OnlyOwnMembership ==
  [][(lpc = "reading" /\ lout' = "returned")
       => LET own == MembershipLine(lraw') /\ LowerSeq(Concerns(lraw')) = <<OwnNick>>
          IN /\ lchannels' # lchannels => own
             /\ (MembershipLine(lraw') /\ ~own) => lchannels' = lchannels /\ lfx' = <<>>
             /\ (own /\ Numeric(lraw') = <<"JOIN">>)
                  => lchannels' = lchannels \cup {LineChannel(lraw')}
             /\ (own /\ Numeric(lraw') # <<"JOIN">>)
                  => lchannels' = lchannels \ {LineChannel(lraw')}]_vars


\* a line that is malformed or unexpected in the engine's state: an unknown
\* command or numeric, too few fields, an AUTHENTICATE prompt with no SASL
\* credentials configured, a PRIVMSG for an engine that is not in the Topology
Unexpected(raw) ==
  LET n == Len(SplitOn(raw, " "))
  IN \/ ~StartsWith(raw, "PING") /\ ~StartsWith(raw, "AUTHENTICATE")
          /\ Numeric(raw) \notin {<<"CAP">>, <<"903">>, <<"904">>, <<"905">>, <<"001">>,
                                  <<"JOIN">>, <<"PART">>, <<"KICK">>, <<"PRIVMSG">>, <<"433">>}
     \/ Numeric(raw) \in {<<"CAP">>, <<"JOIN">>, <<"PART">>, <<"KICK">>} /\ n < 3
     \/ Numeric(raw) = <<"PRIVMSG">> /\ n < 4
     \/ StartsWith(raw, "AUTHENTICATE") /\ ~lcfg.sasl
     \/ Numeric(raw) = <<"PRIVMSG">> /\ ~lcfg.topo

\* C30: a malformed or unexpected line is ignored: handling it returns and the
\* connection stays open, so that no reconnect follows.
C30_UnexpectedLineIgnored ==
  (lout # "" /\ Unexpected(lraw)) => lout = "returned" /\ lpc = "reading"


\* C31: a reload calls purge_network only for a network absent from its new
\* configuration, and purge_channel(network, ch) only for a channel that the
\* configuration it replaces listed for that network and the new one does not.
C31_PurgeOnlyRemoved ==
  \A i \in 1..Len(wire) :
    /\ wire[i].k = "purge_network" => ~ret.cfg[wire[i].n].present
    /\ wire[i].k = "purge_channel"
         => /\ ret.old[wire[i].n].present
            /\ wire[i].arg \in LowerSet(ret.old[wire[i].n].chans)
            /\ wire[i].arg \notin LowerSet(ret.cfg[wire[i].n].chans)


\* C32: every accepted webhook connection terminates: a response is eventually
\* written and the connection closed.
C32_ConnectionTerminates ==
  (wpc = "reqline") ~> (wpc = "done" /\ wresp # <<>> /\ wclosed)


\* C33: an engine's reconnect delay is always between 5 and 300; it changes only
\* by doubling, capped at 300, when a backoff sleep ends, or by being reset to 5
\* on a 001, and a 001 does reset it.
C33_DelayBounds ==
  [](\A e \in EngIds : delay[e] >= 5 /\ delay[e] <= 300)
  /\ [][\A e \in EngIds :
          /\ delay'[e] # delay[e]
               => \/ pc[e] = "backoff" /\ delay'[e] = Min(2 * delay[e], 300)
                  \/ pc[e] = "connected" /\ ready'[e] /\ delay'[e] = 5
          /\ (pc[e] = "connected" /\ ~ready[e] /\ ready'[e]) => delay'[e] = 5]_vars

\* an engine whose delay was doubled up to the ceiling has connected again and is
\* about to receive the 001 that resets it
C33_Witness ==
  \E e \in EngIds :
    /\ pc[e] = "connected"
    /\ ~ready[e]
    /\ sock[e] = "open"
    /\ delay[e] = RECONNECT_DELAY_MAX


\* C34: an engine that has no open socket (disconnected, in its backoff sleep or
\* connecting) has an empty joined-channel set.
C34_NoSocketNoChannels ==
  \A e \in EngIds : sock[e] # "open" => channels[e] = {}


\* the channels the 001 handler of the step joined
Joined001(fx) == {fx[i].arg : i \in {k \in 1..Len(fx) : fx[k].by = "001" /\ fx[k].cmd = "JOIN"}}

\* C35: once a reload has loaded a configuration, a 001 received after a
\* reconnect by an engine that is in the Topology joins exactly the channels the
\* configuration loaded last lists for its network.
C35_RejoinsReloadedChannels ==
  [][\A e \in EngIds :
       (/\ pc[e] = "connected" /\ ~ready[e] /\ ready'[e]
        /\ nreload > 0
        /\ cycles[e] > 0
        /\ clients[ename[e]] = e
        /\ botcfg[ename[e]].present)
         => LowerSet(Joined001(wire')) = LowerSet(botcfg[ename[e]].chans)]_vars


\* C36: no JOIN and no PRIVMSG line is written to an engine's socket before the
\* 001 of that connection has been received, whoever writes it (the 001 handler
\* itself, a delivery, a command reply, a reload).
C36_NothingBeforeWelcome ==
  [][\A i \in 1..Len(wire') :
       (wire'[i].k = "send" /\ wire'[i].cmd \in {"JOIN", "PRIVMSG"})
         => ready[wire'[i].e] \/ wire'[i].by = "001"]_vars


\* the protocol lines a peer reads from a byte stream: cut at every LF, one CR
\* before it dropped, empty lines skipped
RECURSIVE ProtocolLines(_)
ProtocolLines(bytes) ==
  IF bytes = <<>> THEN <<>>
  ELSE LET parts == SplitOnce(bytes, "LF")
           head  == parts[1]
           line  == IF head # <<>> /\ Last(head) = "CR" THEN SubSeq(head, 1, Len(head) - 1)
                    ELSE head
           rest  == IF Len(parts) = 2 THEN ProtocolLines(parts[2]) ELSE <<>>
       IN IF line = <<>> THEN rest ELSE <<line>> \o rest

\* C37: every protocol line that privmsg(target, text) puts on the socket is a
\* PRIVMSG command addressed to target, whatever the text contains.
C37_OnlyPrivmsgLines ==
  fpc = "returned" =>
    \A i \in 1..Len(ProtocolLines(fwritten)) :
      LET line == ProtocolLines(fwritten)[i]
          n    == Len(FramePrefix(ftarget))
      IN Len(line) >= n /\ SubSeq(line, 1, n) = FramePrefix(ftarget)


\* the reply that ends the server's part of a SASL negotiation: 903, 904 or 905
\* after CAP ACK, or CAP NAK; the server then waits for CAP END
EndsNegotiation(raw) ==
  \/ Numeric(raw) \in {<<"903">>, <<"904">>, <<"905">>}
  \/ Numeric(raw) = <<"CAP">> /\ Contains(raw, "NAK")

\* C38: once CAP REQ :sasl was sent on a connection, the reply that ends the
\* server's part of the negotiation (903, 904 or 905 after CAP ACK, or CAP NAK)
\* makes the engine send CAP END.
C38_NegotiationEnds ==
  (lcfg.sasl /\ lout # "" /\ EndsNegotiation(lraw))
    => lout = "returned" /\ Sent(<<"CAP", " ", "END">>) \in {lfx[i] : i \in 1..Len(lfx)}


\* C39: once the engine has registered under the nickname a 433 made it take,
\* a JOIN the server echoes under that nickname puts the channel into the joined
\* set; and the nickname a 433 makes the engine try differs from the one it
\* tried last, which the 433 rejects.
C39_SuffixedNickRecognised ==
  [][(lpc = "reading" /\ lout' = "returned")
       => /\ (/\ lready /\ lnick # <<OwnNick>>
              /\ Numeric(lraw') = <<"JOIN">> /\ MembershipLine(lraw')
              /\ LowerSeq(Concerns(lraw')) = LowerSeq(lnick))
               => LineChannel(lraw') \in lchannels'
          /\ Numeric(lraw') = <<"433">> => NickSent(lfx') # lnick]_vars


StatusCodes == {200, 400, 403, 404, 405, 408, 413, 500}

\* C40: a webhook connection that has been closed was written exactly one
\* response, with a status of 200, 400, 403, 404, 405, 408, 413 or 500, and none
\* is written to one that is open or after the closing; the delivery callback is
\* started at most once, and only when that status is 200.
C40_OneResponse ==
  [](/\ wclosed => Len(wresp) = 1 /\ wresp[1] \in StatusCodes
     /\ ~wclosed => wresp = <<>>
     /\ wtask # "none" => wresp = <<200>>)
  /\ [][/\ wclosed => wresp' = wresp
        /\ wtask' = "pending" => wtask = "none" \/ wtask = "pending"
        /\ wtask # "none" => wtask' # "none"]_vars

\* a request was answered 200 after its body was read and its signature checked,
\* and its delivery, started once, has returned
C40_Witness ==
  /\ wpc = "done"
  /\ wclosed
  /\ wresp = <<200>>
  /\ wsigchecked
  /\ wtask = "returned"

====
